---- MODULE Spec2Model ----
(***************************************************************************)
(* Chat service of the forum application (server/services/chat.service.ts) *)
(* as a state machine.  Every request handler is an async function: it     *)
(* runs atomically between two awaits, and the handlers of concurrent      *)
(* requests interleave at their awaits.  A process p is one in-flight      *)
(* call; proc[p].pc is the await it is suspended at.                       *)
(*                                                                         *)
(* The three collections (User, Message, Chat) are the variables users,    *)
(* messages and chats.  A document's _id is its position in the            *)
(* collection (documents are never deleted by this service).  Every        *)
(* storage call either answers or throws (a storage failure); a throw is   *)
(* the ok = FALSE branch of the step that makes the call.                  *)
(***************************************************************************)
EXTENDS Integers, Sequences, FiniteSets, TLC

\* ------------------------------------------------------------------ bounds

\* Calls started in one behaviour (all processes together).
MaxCalls == 2

\* The request handlers that can be in flight at once.
Procs == {"p1", "p2"}

\* ------------------------------------------------------------------ values

Null == "null"

\* The User collection after alice and bob have signed up: username -> _id.
\* "ghost" is the name of no user.
InitialUsers == [u \in {"alice", "bob"} |-> IF u = "alice" THEN "u_alice" ELSE "u_bob"]

\* User ids a caller may pass to addParticipantToChat.
UserIds == {"u_alice", "u_bob", "u_ghost"}

\* Message bodies a caller may pass (Message, without the type 'direct' every
\* one of them carries): a valid one at two send times, one with empty text,
\* one from a sender that is no user.
Hello(sentAt) == [msg |-> "hi", msgFrom |-> "alice", msgDateTime |-> sentAt]
EmptyText == [msg |-> "", msgFrom |-> "alice", msgDateTime |-> 1]
GhostSender == [msg |-> "hi", msgFrom |-> "ghost", msgDateTime |-> 1]

MessageInputs == { Hello(1), Hello(2), EmptyText, GhostSender }

\* CreateChatPayload.messages: no message, valid ones (the later one sent
\* first), and lists with an invalid message first or last.
MessageListInputs ==
    { <<>>, <<Hello(1)>>, <<Hello(2), Hello(1)>>,
      <<EmptyText>>, <<Hello(1), GhostSender>>, <<EmptyText, Hello(1)>> }

\* The socket connections of the clients, and the chat ids they may name in
\* joinChat and leaveChat.
Conns == {"c1", "c2"}
RoomIds == {1, 2}

\* chatId === undefined in leaveChat.
UndefinedChatId == 0

NoSocketEvent == [event |-> "none", conn |-> "", chatId |-> UndefinedChatId, before |-> <<>>]

\* A field a request body does not have, and a msgDateTime that is null.
Undefined == "undefined"
NullDate == 0

\* new Date() on line 105 of the controller.
Now == 3

\* CreateChatPayload.participants.
ParticipantInputs == { <<"alice", "bob">>, <<"alice", "ghost">> }

\* The strings that are the text of an ObjectId (24 hexadecimal digits in the
\* program): the ids of the users and one more. No username is one.
ObjectIdStrings == UserIds

\* The parameter p of getChatsByParticipants: usernames, as the route passes
\* them, and strings that happen to be the text of a user's _id.
UsernameListInputs ==
    { <<"alice">>, <<"bob", "alice">>, <<"ghost">>, <<"u_alice">>, <<"u_bob", "u_alice">> }

NoChat == [_id |-> 0, participants |-> <<>>, messages |-> <<>>]
NoMessage == [_id |-> 0, msg |-> "", msgFrom |-> "", msgDateTime |-> 0]
NoPayload == [participants |-> <<>>, messages |-> <<>>]

\* ChatResponse / MessageResponse: a value or { error }; Chat[] for
\* getChatsByParticipants.
ChatValue(c) ==
    [kind |-> "chat", error |-> "", chat |-> c, message |-> NoMessage, chats |-> <<>>]
MessageValue(m) ==
    [kind |-> "message", error |-> "", chat |-> NoChat, message |-> m, chats |-> <<>>]
ListValue(cs) ==
    [kind |-> "list", error |-> "", chat |-> NoChat, message |-> NoMessage, chats |-> cs]
Err(e) ==
    [kind |-> "error", error |-> e, chat |-> NoChat, message |-> NoMessage, chats |-> <<>>]
NoResult ==
    [kind |-> "none", error |-> "", chat |-> NoChat, message |-> NoMessage, chats |-> <<>>]

ErrNoUser == "No user found with username"
ErrCreateChat == "Error when creating new chat"
ErrCreateChatMessages == "Error when creating new chat messages"
ErrDidNotPopulate == "Did not populate messages"
ErrNoMessage == "No message found with ID"
ErrNoChat == "No chat found with ID"
ErrAddMessage == "Error when adding message to chat"
ErrAddParticipant == "Error when adding participant to chat"
ErrGetChat == "Error when retrieving chat"
ErrSaveMessage == "Error when saving a message"

\* The direct-message page of a connection that is not open: the state of
\* useDirectMessage (selectedChat, null to begin with), the handler that
\* awaits a request and the server process that serves it, the chatUpdate
\* events that have reached the page and the socket events it has emitted and
\* the server has not handled yet. showing is the id of the stored chat that
\* selectedChat is a copy of.
NoClient ==
    [ mounted |-> FALSE, selectedChat |-> NoChat, showing |-> UndefinedChatId,
      handler |-> "none", awaiting |-> "", asked |-> UndefinedChatId,
      inbox |-> <<>>, outbox |-> <<>> ]

\* user.username of the page of each connection, and the user it may pick in
\* the create panel.
ClientUser == [conn \in Conns |-> IF conn = "c1" THEN "alice" ELSE "bob"]
OtherUser == [conn \in Conns |-> IF conn = "c1" THEN "bob" ELSE "alice"]

\* A JavaScript number: an integer, or NaN.
Num(n) == [nan |-> FALSE, val |-> n]
NaN == [nan |-> TRUE, val |-> 0]

\* Texts of the number input of the Nim page, character by character: empty,
\* no number, the numbers 0 to 4, a negative one, one with a fraction, one
\* with a letter after the digit, one with two digits, one after a blank.
NimInputs ==
    { <<>>, <<"a">>, <<"0">>, <<"1">>, <<"2">>, <<"3">>, <<"4">>, <<"-", "1">>,
      <<"2", ".", "7">>, <<"3", "x">>, <<"1", "2">>, <<" ", "2">> }

\* useState<GameMove | null>(null), and a move with its number of objects
\* (gameID and playerID are those of the page).
NullMove == [isNull |-> TRUE, gameID |-> "", playerID |-> "", numObjects |-> NaN]
GameMove(numObjects) ==
    [isNull |-> FALSE, gameID |-> "g1", playerID |-> "alice", numObjects |-> numObjects]

\* The Nim page before any input: no move, nothing typed, nothing emitted.
NoNim == [move |-> NullMove, value |-> <<>>, emitted |-> <<>>]

\* Users of userUpdate events and of the list getUsers returns: a user in two
\* versions of its account (another biography), and two more users.
User(username, version) == [username |-> username, version |-> version]
UserInputs == { User("alice", 1), User("alice", 2), User("bob", 1), User("carol", 1) }

\* What getUsers may return: the users of the server, each username once.
UserListInputs ==
    { <<>>, <<User("alice", 1)>>, <<User("alice", 1), User("bob", 1)>>,
      <<User("bob", 1), User("carol", 1), User("alice", 2)>> }

NoUserUpdate == [type |-> "none", user |-> User("", 0)]

\* The users list page before its effect has run: useState<User[]>([]).
\* last is the userUpdate event that was handled last.
NoUsersList == [userList |-> <<>>, listening |-> FALSE, fetching |-> FALSE,
                last |-> NoUserUpdate]

\* Messages of the profile settings page.
MsgErrFetch == "Error fetching user profile"
MsgPasswordEmpty == "Password cannot be empty"
MsgPasswordReset == "Password reset successfully"
MsgPasswordMismatch == "Passwords do not match"
MsgBioUpdated == "Biography updated successfully"
MsgUserDeleted == "User deleted successfully"
MsgServiceError == "Request failed"

\* userData: null, and the user of the page with a biography.
NoUserData == [username |-> "", biography |-> ""]
UserData(biography) == [username |-> "alice", biography |-> biography]

\* The profile settings page before its effect has run (the useState calls);
\* pending is the set of its handlers that await a request.
NoProfile ==
    [ userData |-> NoUserData, newPassword |-> "", confirmNewPassword |-> "",
      loading |-> FALSE, editBioMode |-> FALSE, newBio |-> "",
      successMessage |-> Null, errorMessage |-> Null,
      showConfirmation |-> FALSE, pendingAction |-> FALSE,
      mounted |-> FALSE, navigated |-> FALSE, pending |-> {} ]

NoPages == [nim |-> NoNim, usersList |-> NoUsersList, profile |-> NoProfile]

\* rooms[chatId] is the set of socket connections that have joined the room
\* of that chat.
\* lastSocket is the last socket event the server has handled, with the
\* rooms as they were before it.
\* clients[conn] is the direct-message page of connection conn.
\* pages holds the state of the other pages of the client: the Nim game
\* page, the users list page and the profile settings page.
VARIABLES users, messages, chats, proc, calls, committed, rooms, lastSocket, clients,
          pages

vars == <<users, messages, chats, proc, calls, committed, rooms, lastSocket, clients, pages>>

\* A process that runs no call.
IdleProc ==
    [ pc |-> "idle", op |-> "none",
      payload |-> NoPayload,        \* saveChat: chatPayload
      chatId |-> 0, messageId |-> 0, \* addMessageToChat: its two parameters
      userId |-> Null,              \* addParticipantToChat: userId
      input |-> NoMessage,          \* createMessage: messageData
      participants |-> <<>>,        \* saveChat: participants (resolved ids)
      chat |-> NoChat,              \* saveChat: chat, the document create() returned
      i |-> 0,                      \* saveChat: position of the for loop
      created |-> <<>>,             \* saveChat: ids the createMessage calls returned
      chatResponse |-> NoResult,    \* saveChat: chatResponse
      message |-> NoMessage,        \* addMessageToChat: message
      user |-> Null,                \* addMessageToChat: user
      usernames |-> <<>>,           \* getChatsByParticipants: p
      caught |-> "",                \* getChatsByParticipants: what catch (error) caught
      result |-> NoResult,          \* what the call resolved with
      route |-> "none",             \* the route handler that runs the call
      body |-> NoMessage,           \* addMessageToChatRoute: req.body
      status |-> 0,                 \* res: the status the client got (0: none yet)
      sent |-> NoResult,            \* res: the body the client got
      sends |-> 0,                  \* res: send / json calls on the response
      rejected |-> FALSE,           \* the handler's promise rejected
      emitted |-> <<>>,             \* what the handler has emitted on the socket
      populateCalls |-> 0 ]         \* populateDocument calls the handler has made

\* ------------------------------------------------------------- storage calls

\* UserModel.findOne({ username }): the user's _id, or null.
UserFindOne(username) ==
    IF username \in DOMAIN users THEN users[username] ELSE Null

\* findIndex with a test no result passes (r === undefined): always -1.
FindIndexUndefined(results) == 0

\* participantResults.findIndex(r => r === null); 0 stands for -1.
FindIndexNull(results) ==
    IF \E k \in 1..Len(results) : results[k] = Null
    THEN CHOOSE k \in 1..Len(results) :
            results[k] = Null /\ \A j \in 1..(k - 1) : results[j] # Null
    ELSE 0

\* A lookup that answers with a stub document for an id it does not hold.
MessageFindOrStub(messageId) ==
    IF messageId \in 1..Len(messages) THEN messages[messageId]
    ELSE [NoMessage EXCEPT !._id = messageId]

\* MessageModel.findById(messageId).lean(): the document, or null (NoMessage).
MessageFindById(messageId) ==
    IF messageId \in 1..Len(messages) THEN messages[messageId] ELSE NoMessage

\* A null test that never fires (message === undefined).
MessageIsUndefined(message) == FALSE

\* message === null
MessageIsNull(message) == message = NoMessage

\* A reference to a message as a document carries it: the ObjectId alone, with
\* none of the message's fields.
Ref(messageId) == [_id |-> messageId]

\* The ids of the entries of a document's messages array.
Ids(entries) == [k \in 1..Len(entries) |-> entries[k]._id]

\* The document ChatModel hands back for chat c of the collection: its
\* messages are the stored references.
ChatDocument(coll, c) ==
    [_id |-> c, participants |-> coll[c].participants,
     messages |-> [k \in 1..Len(coll[c].messages) |-> Ref(coll[c].messages[k])]]

\* { ...message, user }
MessageInChat(message, user) ==
    [_id |-> message._id, msg |-> message.msg, msgFrom |-> message.msgFrom,
     msgDateTime |-> message.msgDateTime, user |-> user]

\* The chat schema declares messages as ObjectId references: a pushed
\* MessageInChat is cast to its _id.
CastToObjectId(messageInChat) == messageInChat._id

\* $set in place of $push: the array becomes the one value.
SetInsteadOfPush(array, value) == <<value>>

\* $push with $position 0: the value goes to the front of the array.
PushFront(array, value) == <<value>> \o array

\* The array update operator $push: the value goes to the end of the array.
Push(array, value) == Append(array, value)

\* $push with $sort by msgDateTime: the message goes before the first message
\* of the chat that was sent later than it.
PushMessageBySentAt(coll, chatId, value) ==
    IF chatId \in 1..Len(coll)
    THEN LET array == coll[chatId].messages
             later == { k \in 1..Len(array) :
                          messages[array[k]].msgDateTime > value.msgDateTime }
             at == IF later = {} THEN Len(array) + 1
                   ELSE CHOOSE k \in later : \A j \in later : k <= j
         IN  [coll EXCEPT ![chatId].messages =
                 SubSeq(array, 1, at - 1) \o <<value._id>> \o SubSeq(array, at, Len(array))]
    ELSE coll

\* findByIdAndUpdate with upsert: a chat that does not exist is created.
PushMessageUpsert(coll, chatId, value) ==
    IF chatId \in 1..Len(coll)
    THEN [coll EXCEPT ![chatId].messages = Append(@, value._id)]
    ELSE Append(coll, [participants |-> <<>>, messages |-> <<value._id>>])

\* ChatModel.findByIdAndUpdate(chatId, { $push: { messages: v } }): the collection
\* after the update, which changes chat chatId alone and only if it exists.
PushMessage(coll, chatId, value) ==
    IF chatId \in 1..Len(coll)
    THEN [coll EXCEPT ![chatId].messages = Push(@, CastToObjectId(value))]
    ELSE coll

\* $set in place of $push on participants: the new user replaces the others.
PushParticipantReplace(coll, chatId, userId) ==
    IF chatId \in 1..Len(coll)
    THEN [coll EXCEPT ![chatId].participants = <<userId>>]
    ELSE coll

\* findByIdAndUpdate with upsert: a chat that does not exist is created.
PushParticipantUpsert(coll, chatId, userId) ==
    IF chatId \in 1..Len(coll)
    THEN [coll EXCEPT ![chatId].participants = Append(@, userId)]
    ELSE Append(coll, [participants |-> <<userId>>, messages |-> <<>>])

\* updateMany in place of findByIdAndUpdate: the user is pushed onto every
\* chat of the collection.
PushParticipantEveryChat(coll, chatId, userId) ==
    IF chatId \in 1..Len(coll)
    THEN [c \in 1..Len(coll) |-> [coll[c] EXCEPT !.participants = Append(@, userId)]]
    ELSE coll

\* ChatModel.findByIdAndUpdate(chatId, { $push: { participants: userId } }).
PushParticipant(coll, chatId, userId) ==
    IF chatId \in 1..Len(coll)
    THEN [coll EXCEPT ![chatId].participants = Push(@, userId)]
    ELSE coll

\* A populate that hands the documents back newest first.
PopulateReversed(ids) ==
    LET held == SelectSeq(ids, LAMBDA m : m \in 1..Len(messages))
    IN  [k \in 1..Len(held) |-> messages[held[Len(held) + 1 - k]]]

\* .populate({ path: 'messages', model: MessageModel }): each reference is
\* replaced by the message document it names, in the order of the array; a
\* reference that names no document is dropped.
Populate(ids) ==
    LET held == SelectSeq(ids, LAMBDA m : m \in 1..Len(messages))
    IN  [k \in 1..Len(held) |-> messages[held[k]]]

\* const chat: Chat = { participants: chatResult.participants,
\*                      messages: chatResult.messages }
PopulatedChat(coll, c) ==
    [participants |-> coll[c].participants, messages |-> Populate(coll[c].messages)]

\* The query { participants: { $all: p } } is cast to the schema's type of
\* participants, ObjectId, value by value: a value that is not the text of an
\* ObjectId makes the query throw a CastError.
CastFails(p) == \E k \in 1..Len(p) : p[k] \notin ObjectIdStrings

\* A catch block that hands the failure on as an { error } response.
CaughtAsError == Err(ErrGetChat)

\* catch (error) { return []; }
CaughtAsEmpty == ListValue(<<>>)

\* ChatModel.find({ participants: { $all: p } }): the documents of the chats
\* whose participants array holds every value of p, in collection order.
ChatFindAll(coll, p) ==
    LET hit == { c \in 1..Len(coll) :
                    \A k \in 1..Len(p) : p[k] \in { coll[c].participants[j] :
                                                       j \in 1..Len(coll[c].participants) } }
        Nth[n \in 0..Len(coll)] ==
            IF n = 0 THEN <<>>
            ELSE IF n \in hit THEN Append(Nth[n - 1], ChatDocument(coll, n))
                 ELSE Nth[n - 1]
    IN  Nth[Len(coll)]

\* 'error' in chat, asked of the document ChatModel.create returned.
ErrorInCreatedChat(chat) == "error" \in DOMAIN chat

\* 'error' in response, asked of a ChatResponse or MessageResponse.
ErrorIn(response) == response.kind = "error"

\* A saveMessage that checks the text alone and never looks the sender up.
MessageRejectedForTextOnly(messageData) == messageData.msg = ""

\* saveMessage (services/message.service.ts): the sender must be a user and the
\* text must not be empty.
MessageRejected(messageData) ==
    \/ UserFindOne(messageData.msgFrom) = Null
    \/ messageData.msg = ""

\* The document MessageModel.create(messageData) stores.
NewMessage(messageData) ==
    [_id |-> Len(messages) + 1, msg |-> messageData.msg,
     msgFrom |-> messageData.msgFrom, msgDateTime |-> messageData.msgDateTime]

\* ------------------------------------------------------------------ state

Init ==
    /\ users = InitialUsers
    /\ messages = <<>>
    /\ chats = <<>>
    /\ proc = [p \in Procs |-> IdleProc]
    /\ calls = 0
    /\ committed = <<>>
    /\ rooms = [c \in RoomIds |-> {}]
    /\ lastSocket = NoSocketEvent
    /\ clients = [conn \in Conns |-> NoClient]
    /\ pages = NoPages

Set(p, r) == proc' = [proc EXCEPT ![p] = r]

\* A call whose catch blocks throw again: a failure ends the call with no
\* value at all.
ResolveRethrows(r, res) ==
    [r EXCEPT !.pc = "done", !.result = IF res.kind = "error" THEN NoResult ELSE res,
              !.message = NoMessage, !.user = Null]

\* The call of record r resolves with res (its locals message and user are out
\* of scope from here on).
Resolve(r, res) ==
    [r EXCEPT !.pc = "done", !.result = res, !.message = NoMessage, !.user = Null]

\* A request arrives: a free process p starts the call of record r.
Begin(p, r) ==
    /\ calls' = calls + 1
    /\ Set(p, r)
    /\ UNCHANGED <<users, messages, chats, committed, rooms, lastSocket, clients, pages>>

\* ----------------------------------------------------------------- saveChat

CallSaveChat(p) ==
    /\ proc[p].pc = "idle"
    /\ calls < MaxCalls
    /\ \E ps \in ParticipantInputs, ms \in MessageListInputs :
            Begin(p, [IdleProc EXCEPT !.pc = "sc_lookup", !.op = "saveChat",
                                      !.payload = [participants |-> ps, messages |-> ms]])

\* await Promise.all(participants.map(username => UserModel.findOne({ username })))
\* and the check of the results.
SaveChatLookup(p) ==
    /\ proc[p].pc = "sc_lookup"
    /\ \E ok \in BOOLEAN :
        LET r == proc[p]
            names == r.payload.participants
            participantResults == [k \in 1..Len(names) |-> UserFindOne(names[k])]
        IN  IF ~ok THEN Set(p, Resolve(r, Err(ErrCreateChat)))
            ELSE IF FindIndexNull(participantResults) # 0
                 THEN Set(p, Resolve(r, Err(ErrNoUser)))
                 ELSE Set(p, [r EXCEPT !.pc = "sc_create",
                                       !.participants = participantResults])
    /\ UNCHANGED <<users, messages, chats, calls, committed, rooms, lastSocket, clients, pages>>

\* The head of `for (const messageData of chatPayload.messages)`: the next
\* message, or `return chatResponse` after the last one.
LoopNext(r) ==
    IF r.i < Len(r.payload.messages)
    THEN [r EXCEPT !.pc = "sc_msg", !.i = r.i + 1]
    ELSE Resolve(r, r.chatResponse)

\* await ChatModel.create({ participants, messages: [] })
SaveChatCreate(p) ==
    /\ proc[p].pc = "sc_create"
    /\ \E ok \in BOOLEAN :
        LET r == proc[p]
            coll == Append(chats, [participants |-> r.participants, messages |-> <<>>])
        IN  IF ~ok
            THEN /\ Set(p, Resolve(r, Err(ErrCreateChat)))
                 /\ UNCHANGED <<chats, committed>>
            ELSE /\ chats' = coll
                 /\ committed' = Append(committed, <<>>)
                 /\ Set(p, LoopNext([r EXCEPT !.chat = ChatDocument(coll, Len(coll)),
                                              !.chatResponse = Err(ErrDidNotPopulate),
                                              !.i = 0]))
    /\ UNCHANGED <<users, messages, calls, rooms, lastSocket, clients, pages>>

\* await createMessage(messageData), and the two checks of its response.
SaveChatCreateMessage(p) ==
    /\ proc[p].pc = "sc_msg"
    /\ \E ok \in BOOLEAN :
        LET r == proc[p]
            messageData == r.payload.messages[r.i]
            m == NewMessage(messageData)
        IN  IF ~ok \/ MessageRejected(messageData)
            THEN /\ Set(p, Resolve(r, Err(ErrCreateChatMessages)))
                 /\ UNCHANGED messages
            ELSE /\ messages' = Append(messages, m)
                 /\ Set(p, [r EXCEPT !.pc = "am_find", !.chatId = r.chat._id,
                                     !.messageId = m._id,
                                     !.created = Append(r.created, m._id)])
    /\ UNCHANGED <<users, chats, calls, committed, rooms, lastSocket, clients, pages>>

\* --------------------------------------------------------- addMessageToChat

CallAddMessageToChat(p) ==
    /\ proc[p].pc = "idle"
    /\ calls < MaxCalls
    /\ \E c \in 1..(Len(chats) + 1), m \in 1..(Len(messages) + 1) :
            Begin(p, [IdleProc EXCEPT !.pc = "am_find", !.op = "addMessageToChat",
                                      !.chatId = c, !.messageId = m])

\* addMessageToChat resolves with res: to the route that called it, or into
\* saveChat's loop, which stores it in chatResponse and asks 'error' in chat.
AddMessageResolve(r, res) ==
    IF r.op = "saveChat"
    THEN LET r2 == [r EXCEPT !.chatResponse = res, !.message = NoMessage, !.user = Null]
         IN  IF ErrorInCreatedChat(r2.chat) THEN Resolve(r2, res) ELSE LoopNext(r2)
    ELSE Resolve(r, res)

\* await MessageModel.findById(messageId).lean()
AddMessageFind(p) ==
    /\ proc[p].pc = "am_find"
    /\ \E ok \in BOOLEAN :
        LET r == proc[p]
            message == MessageFindById(r.messageId)
        IN  IF ~ok THEN Set(p, AddMessageResolve(r, Err(ErrAddMessage)))
            ELSE IF MessageIsNull(message)
                 THEN Set(p, AddMessageResolve(r, Err(ErrNoMessage)))
                 ELSE Set(p, [r EXCEPT !.pc = "am_user", !.message = message])
    /\ UNCHANGED <<users, messages, chats, calls, committed, rooms, lastSocket, clients, pages>>

\* await UserModel.findOne({ username: message.msgFrom }).select('_id username').lean()
AddMessageUser(p) ==
    /\ proc[p].pc = "am_user"
    /\ \E ok \in BOOLEAN :
        LET r == proc[p]
        IN  IF ~ok THEN Set(p, AddMessageResolve(r, Err(ErrAddMessage)))
            ELSE Set(p, [r EXCEPT !.pc = "am_push", !.user = UserFindOne(r.message.msgFrom)])
    /\ UNCHANGED <<users, messages, chats, calls, committed, rooms, lastSocket, clients, pages>>

\* await ChatModel.findByIdAndUpdate(chatId, { $push: ... }, { new: true }).lean()
AddMessagePush(p) ==
    /\ proc[p].pc = "am_push"
    /\ \E ok \in BOOLEAN :
        LET r == proc[p]
            coll == PushMessage(chats, r.chatId, MessageInChat(r.message, r.user))
        IN  IF ~ok
            THEN /\ Set(p, AddMessageResolve(r, Err(ErrAddMessage)))
                 /\ UNCHANGED <<chats, committed>>
            ELSE /\ chats' = coll
                 /\ IF r.chatId \in 1..Len(coll)
                    THEN /\ Set(p, AddMessageResolve(r, ChatValue(ChatDocument(coll, r.chatId))))
                         /\ committed' = [committed EXCEPT ![r.chatId] = Append(@, r.messageId)]
                    ELSE /\ Set(p, AddMessageResolve(r, Err(ErrNoChat)))
                         /\ UNCHANGED committed
    /\ UNCHANGED <<users, messages, calls, rooms, lastSocket, clients, pages>>

\* ------------------------------------------------------------ createMessage

CallCreateMessage(p) ==
    /\ proc[p].pc = "idle"
    /\ calls < MaxCalls
    /\ \E messageData \in MessageInputs :
            Begin(p, [IdleProc EXCEPT !.pc = "cm_save", !.op = "createMessage",
                                      !.input = messageData])

\* createMessage = saveMessage(messageData)
CreateMessage(p) ==
    /\ proc[p].pc = "cm_save"
    /\ \E ok \in BOOLEAN :
        LET r == proc[p]
            m == NewMessage(r.input)
        IN  IF ~ok \/ MessageRejected(r.input)
            THEN /\ Set(p, Resolve(r, Err(ErrSaveMessage)))
                 /\ UNCHANGED messages
            ELSE /\ messages' = Append(messages, m)
                 /\ Set(p, Resolve(r, MessageValue(m)))
    /\ UNCHANGED <<users, chats, calls, committed, rooms, lastSocket, clients, pages>>

\* ----------------------------------------------------- addParticipantToChat

CallAddParticipantToChat(p) ==
    /\ proc[p].pc = "idle"
    /\ calls < MaxCalls
    /\ \E c \in 1..(Len(chats) + 1), u \in UserIds :
            Begin(p, [IdleProc EXCEPT !.pc = "ap_update", !.op = "addParticipantToChat",
                                      !.chatId = c, !.userId = u])

\* await ChatModel.findByIdAndUpdate(chatId, { $push: { participants: userId } }, { new: true })
AddParticipantUpdate(p) ==
    /\ proc[p].pc = "ap_update"
    /\ \E ok \in BOOLEAN :
        LET r == proc[p]
            coll == PushParticipant(chats, r.chatId, r.userId)
        IN  IF ~ok
            THEN /\ Set(p, Resolve(r, Err(ErrAddParticipant)))
                 /\ UNCHANGED chats
            ELSE /\ chats' = coll
                 /\ IF r.chatId \in 1..Len(coll)
                    THEN Set(p, Resolve(r, ChatValue(ChatDocument(coll, r.chatId))))
                    ELSE Set(p, Resolve(r, Err(ErrNoChat)))
    /\ UNCHANGED <<users, messages, calls, committed, rooms, lastSocket, clients, pages>>

\* ------------------------------------------------------------------ return

\* The caller has its answer; the process is free for the next request.
Return(p) ==
    /\ proc[p].pc = "done"
    /\ Set(p, IdleProc)
    /\ UNCHANGED <<users, messages, chats, calls, committed, rooms, lastSocket, clients, pages>>

\* ------------------------------------------------------------------ getChat

CallGetChat(p) ==
    /\ proc[p].pc = "idle"
    /\ calls < MaxCalls
    /\ \E c \in 1..(Len(chats) + 1) :
            Begin(p, [IdleProc EXCEPT !.pc = "gc_find", !.op = "getChat", !.chatId = c])

\* await ChatModel.findById(chatId).populate({ path: 'messages', model: MessageModel })
GetChatFind(p) ==
    /\ proc[p].pc = "gc_find"
    /\ \E ok \in BOOLEAN :
        LET r == proc[p]
        IN  IF ~ok THEN Set(p, Resolve(r, Err(ErrGetChat)))
            ELSE IF r.chatId \notin 1..Len(chats)
                 THEN Set(p, Resolve(r, Err(ErrNoChat)))
                 ELSE Set(p, Resolve(r, ChatValue(PopulatedChat(chats, r.chatId))))
    /\ UNCHANGED <<users, messages, chats, calls, committed, rooms, lastSocket, clients, pages>>

\* --------------------------------------------------- getChatsByParticipants

CallGetChatsByParticipants(p) ==
    /\ proc[p].pc = "idle"
    /\ calls < MaxCalls
    /\ \E names \in UsernameListInputs :
            Begin(p, [IdleProc EXCEPT !.pc = "gp_find", !.op = "getChatsByParticipants",
                                      !.usernames = names])

\* await ChatModel.find({ participants: { $all: p } })
GetChatsFind(p) ==
    /\ proc[p].pc = "gp_find"
    /\ \E ok \in BOOLEAN :
        LET r == proc[p]
        IN  IF ~ok
            THEN Set(p, [Resolve(r, CaughtAsEmpty) EXCEPT !.caught = "StorageError"])
            ELSE IF CastFails(r.usernames)
                 THEN Set(p, [Resolve(r, CaughtAsEmpty) EXCEPT !.caught = "CastError"])
                 ELSE Set(p, Resolve(r, ListValue(ChatFindAll(chats, r.usernames))))
    /\ UNCHANGED <<users, messages, chats, calls, committed, rooms, lastSocket, clients, pages>>

Next ==
    \E p \in Procs :
        \/ CallSaveChat(p)
        \/ SaveChatLookup(p)
        \/ SaveChatCreate(p)
        \/ SaveChatCreateMessage(p)
        \/ CallAddMessageToChat(p)
        \/ AddMessageFind(p)
        \/ AddMessageUser(p)
        \/ AddMessagePush(p)
        \/ CallCreateMessage(p)
        \/ CreateMessage(p)
        \/ CallAddParticipantToChat(p)
        \/ AddParticipantUpdate(p)
        \/ Return(p)

Spec == Init /\ [][Next]_vars

\* The service with its two read operations in flight next to the writers.
NextWithReads ==
    \/ Next
    \/ \E p \in Procs :
        \/ CallGetChat(p)
        \/ GetChatFind(p)
        \/ CallGetChatsByParticipants(p)
        \/ GetChatsFind(p)

SpecWithReads == Init /\ [][NextWithReads]_vars

\* ---------------------------------------------------------------- two chats

\* The storage after two createChat requests without messages and one
\* createMessage: two chats and a message that is in neither.
InitTwoChats ==
    /\ users = InitialUsers
    /\ messages = << [_id |-> 1, msg |-> "hi", msgFrom |-> "alice", msgDateTime |-> 1] >>
    /\ chats = << [participants |-> <<"u_alice", "u_bob">>, messages |-> <<>>],
                 [participants |-> <<"u_alice">>, messages |-> <<>>] >>
    /\ proc = [p \in Procs |-> IdleProc]
    /\ calls = 0
    /\ committed = << <<>>, <<>> >>
    /\ rooms = [c \in RoomIds |-> {}]
    /\ lastSocket = NoSocketEvent
    /\ clients = [conn \in Conns |-> NoClient]
    /\ pages = NoPages

\* The two operations that update a chat, called for either chat (or for no
\* chat) in any interleaving.
NextTwoChats ==
    \E p \in Procs :
        \/ CallAddMessageToChat(p)
        \/ AddMessageFind(p)
        \/ AddMessageUser(p)
        \/ AddMessagePush(p)
        \/ CallAddParticipantToChat(p)
        \/ AddParticipantUpdate(p)
        \/ Return(p)

SpecTwoChats == InitTwoChats /\ [][NextTwoChats]_vars

\* ------------------------------------------------------------ user removal

\* The user service deletes the account of username: the User document is
\* gone, the messages the user has sent stay.
RemoveUser(username) ==
    /\ username \in DOMAIN users
    /\ users' = [u \in DOMAIN users \ {username} |-> users[u]]
    /\ UNCHANGED <<messages, chats, proc, calls, committed, rooms, lastSocket, clients, pages>>

\* The chat service while accounts are being deleted.
NextWithUserRemoval ==
    \/ NextWithReads
    \/ \E username \in {"alice", "bob"} : RemoveUser(username)

SpecWithUserRemoval == Init /\ [][NextWithUserRemoval]_vars

\* ------------------------------------------------------------ the controller

ErrInvalidBody == "Invalid request body"

\* Bodies of POST /createChat: well-formed ones, one without participants and
\* one without messages. present is the set of fields the body has.
CreateChatBodies ==
    { [present |-> {"participants", "messages"}, participants |-> ps, messages |-> ms] :
        ps \in ParticipantInputs, ms \in { <<>>, <<Hello(1)>>, <<GhostSender>> } }
    \cup { [present |-> {"messages"}, participants |-> <<>>, messages |-> <<>>],
           [present |-> {"participants"}, participants |-> <<"alice", "bob">>,
            messages |-> <<>>] }

\* Bodies of POST /:chatId/addMessage: a valid one, one with empty text, one
\* without msgFrom, one whose msgDateTime is null, one from a sender that is no
\* user.
AddMessageBodies ==
    { Hello(1), EmptyText,
      [msg |-> "hi", msgFrom |-> Undefined, msgDateTime |-> 1],
      [msg |-> "hi", msgFrom |-> "alice", msgDateTime |-> NullDate],
      GhostSender }

\* Bodies of POST /:chatId/addParticipant.
AddParticipantBodies == { [userId |-> u] : u \in {"u_bob", "u_ghost", Undefined, ""} }

\* Usernames of GET /getChatsByUser/:username.
UsernameParams == {"alice", "ghost", "u_alice"}

isCreateChatRequestValid(body) ==
    /\ "participants" \in body.present
    /\ "messages" \in body.present

isAddMessageRequestValid(body) ==
    /\ body.msg # Undefined
    /\ body.msg # ""
    /\ body.msgFrom # Undefined
    /\ body.msgFrom # ""
    /\ body.msgDateTime # NullDate

\* A validator that lets every body through.
AcceptsEveryBody(body) == TRUE

isAddParticipantRequestValid(body) ==
    /\ body.userId # Undefined
    /\ body.userId # ""

\* const messageData = { msg, msgFrom, msgDateTime: req.body.msgDateTime ?? new Date() }
MessageData(body) ==
    [msg |-> body.msg, msgFrom |-> body.msgFrom,
     msgDateTime |-> IF body.msgDateTime = NullDate THEN Now ELSE body.msgDateTime]

\* res.status(code).send(text) or .json(value) on a response nothing was sent
\* on yet: the client gets the status and the body.
Send(r, code, value) ==
    [r EXCEPT !.status = code, !.sent = value, !.sends = 1]

\* The catch block of a route: res.status(500).send(...). On a response that
\* was already sent the send throws, inside the catch: the handler rejects.
Catch(r, value) ==
    IF r.sends = 0 THEN Send(r, 500, value)
    ELSE [r EXCEPT !.sends = @ + 1, !.rejected = TRUE]

\* A route that answers 500 whatever the service returned.
JsonAsFailure(r, value) == Catch(r, value)

\* res.status(200).json(value) inside the try: on a response that was already
\* sent it throws, into the catch.
Json(r, value) ==
    IF r.sends = 0 THEN Send(r, 200, value)
    ELSE Catch([r EXCEPT !.sends = @ + 1], value)

\* if ('error' in result) throw new Error(result.error); res.status(200).json(result)
\* with the catch block around them.
Respond(r) ==
    [ (IF ErrorIn(r.result) THEN Catch(r, r.result) ELSE Json(r, r.result))
        EXCEPT !.pc = "responded" ]

\* A broadcast that reaches every connection.
EveryConnection(room) == Conns

\* The connections in the room: socket.to(room) addresses these.
RoomMembers(room) == IF room \in DOMAIN rooms THEN rooms[room] ELSE {}

\* socket.to(chatId).emit('chatUpdate', { chat, type }): the event, and the
\* connections it is delivered to.
Emit(r, chatId, chat, type) ==
    [r EXCEPT !.emitted = Append(@, [event |-> "chatUpdate", room |-> chatId,
                                     type |-> type, chat |-> chat,
                                     to |-> RoomMembers(chatId)])]

\* The pages an event emitted to a room reaches: the connections in the room
\* whose page listens for chatUpdate (socket.on('chatUpdate', ...)).
Deliver(room, payload) ==
    [conn \in Conns |->
        IF conn \in RoomMembers(room) /\ clients[conn].mounted
        THEN [clients[conn] EXCEPT !.inbox = Append(@, payload)]
        ELSE clients[conn]]

\* A request arrives at a route.
Request(route, body) == [IdleProc EXCEPT !.route = route, !.body = body]

\* createChatRoute, up to the await of saveChat.
CreateChatRequest(body) ==
    LET r == Request("createChat", body)
    IN  IF ~isCreateChatRequestValid(body)
        THEN [Send(r, 400, Err(ErrInvalidBody)) EXCEPT !.pc = "responded"]
        ELSE [r EXCEPT !.pc = "sc_lookup", !.op = "saveChat",
                       !.payload = [participants |-> body.participants,
                                    messages |-> body.messages]]

\* POST /createChat
ReqCreateChat(p) ==
    /\ proc[p].pc = "idle"
    /\ calls < MaxCalls
    /\ \E body \in CreateChatBodies : Begin(p, CreateChatRequest(body))

\* createChatRoute after saveChat has resolved.
CreateChatRespond(p) ==
    /\ proc[p].pc = "done"
    /\ proc[p].route = "createChat"
    /\ Set(p, Respond(proc[p]))
    /\ UNCHANGED <<users, messages, chats, calls, committed, rooms, lastSocket, clients, pages>>

\* POST /:chatId/addMessage, up to the await of createMessage: the 400 is sent
\* and the handler goes on, there is no return after it.
AddMessageRequest(chatId, body) ==
    LET r == [Request("addMessage", body) EXCEPT !.chatId = chatId]
        r2 == IF ~isAddMessageRequestValid(body)
              THEN Send(r, 400, Err(ErrInvalidBody)) ELSE r
    IN  [r2 EXCEPT !.pc = "cm_save", !.op = "createMessage",
                   !.input = MessageData(body)]

\* POST /:chatId/addMessage
ReqAddMessage(p) ==
    /\ proc[p].pc = "idle"
    /\ calls < MaxCalls
    /\ \E c \in 1..(Len(chats) + 1), body \in AddMessageBodies :
            Begin(p, AddMessageRequest(c, body))

\* addMessageToChatRoute after createMessage has resolved, up to the await of
\* addMessageToChat.
AddMessageCreated(p) ==
    /\ proc[p].pc = "done"
    /\ proc[p].route = "addMessage"
    /\ proc[p].op = "createMessage"
    /\ LET r == proc[p]
       IN  IF ErrorIn(r.result)
           THEN Set(p, [Catch(r, r.result) EXCEPT !.pc = "responded"])
           ELSE Set(p, [r EXCEPT !.pc = "am_find", !.op = "addMessageToChat",
                                 !.messageId = r.result.message._id])
    /\ UNCHANGED <<users, messages, chats, calls, committed, rooms, lastSocket, clients, pages>>

\* addMessageToChatRoute after addMessageToChat has resolved: the emit and the
\* response.
AddMessageRespond(p) ==
    /\ proc[p].pc = "done"
    /\ proc[p].route = "addMessage"
    /\ proc[p].op = "addMessageToChat"
    /\ LET r == proc[p]
       IN  IF ErrorIn(r.result)
           THEN /\ Set(p, [Catch(r, r.result) EXCEPT !.pc = "responded"])
                /\ UNCHANGED clients
           ELSE /\ Set(p, [Json(Emit(r, r.chatId, r.result.chat, "newMessage"), r.result)
                            EXCEPT !.pc = "responded"])
                /\ clients' = Deliver(r.chatId, [type |-> "newMessage",
                                                  chat |-> r.result.chat])
    /\ UNCHANGED <<users, messages, chats, calls, committed, rooms, lastSocket, pages>>

\* getChatRoute, up to the await of getChat.
GetChatRequest(chatId) ==
    [Request("getChat", NoMessage) EXCEPT
        !.pc = "gc_find", !.op = "getChat", !.chatId = chatId]

\* GET /:chatId
ReqGetChat(p) ==
    /\ proc[p].pc = "idle"
    /\ calls < MaxCalls
    /\ \E c \in 1..(Len(chats) + 1) : Begin(p, GetChatRequest(c))

\* getChatRoute after getChat has resolved.
GetChatRespond(p) ==
    /\ proc[p].pc = "done"
    /\ proc[p].route = "getChat"
    /\ Set(p, Respond(proc[p]))
    /\ UNCHANGED <<users, messages, chats, calls, committed, rooms, lastSocket, clients, pages>>

\* GET /getChatsByUser/:username, up to the await of getChatsByParticipants.
ReqGetChatsByUser(p) ==
    /\ proc[p].pc = "idle"
    /\ calls < MaxCalls
    /\ \E username \in UsernameParams :
            Begin(p, [Request("getChatsByUser", NoMessage) EXCEPT
                        !.pc = "gp_find", !.op = "getChatsByParticipants",
                        !.usernames = <<username>>])

\* getChatsByUserRoute after getChatsByParticipants has resolved:
\* res.status(200).json(result), with no test of the result and no try.
GetChatsByUserRespond(p) ==
    /\ proc[p].pc = "done"
    /\ proc[p].route = "getChatsByUser"
    /\ Set(p, [Json(proc[p], proc[p].result) EXCEPT !.pc = "responded"])
    /\ UNCHANGED <<users, messages, chats, calls, committed, rooms, lastSocket, clients, pages>>

\* POST /:chatId/addParticipant, up to the await of addParticipantToChat.
ReqAddParticipant(p) ==
    /\ proc[p].pc = "idle"
    /\ calls < MaxCalls
    /\ \E c \in 1..(Len(chats) + 1), body \in AddParticipantBodies :
        LET r == [Request("addParticipant", body) EXCEPT !.chatId = c]
        IN  IF ~isAddParticipantRequestValid(body)
            THEN Begin(p, [Send(r, 400, Err(ErrInvalidBody)) EXCEPT !.pc = "responded"])
            ELSE Begin(p, [r EXCEPT !.pc = "ap_update", !.op = "addParticipantToChat",
                                    !.userId = body.userId])

\* addParticipantToChatRoute after addParticipantToChat has resolved.
AddParticipantRespond(p) ==
    /\ proc[p].pc = "done"
    /\ proc[p].route = "addParticipant"
    /\ Set(p, Respond(proc[p]))
    /\ UNCHANGED <<users, messages, chats, calls, committed, rooms, lastSocket, clients, pages>>

\* The handler has returned; the process is free for the next request.
RouteEnd(p) ==
    /\ proc[p].pc = "responded"
    /\ Set(p, IdleProc)
    /\ UNCHANGED <<users, messages, chats, calls, committed, rooms, lastSocket, clients, pages>>

\* The requests of the five routes, each running the service it calls.
NextRoutes ==
    \E p \in Procs :
        \/ ReqCreateChat(p)
        \/ SaveChatLookup(p)
        \/ SaveChatCreate(p)
        \/ SaveChatCreateMessage(p)
        \/ CreateChatRespond(p)
        \/ ReqAddMessage(p)
        \/ CreateMessage(p)
        \/ AddMessageCreated(p)
        \/ AddMessageFind(p)
        \/ AddMessageUser(p)
        \/ AddMessagePush(p)
        \/ AddMessageRespond(p)
        \/ ReqGetChat(p)
        \/ GetChatFind(p)
        \/ GetChatRespond(p)
        \/ ReqGetChatsByUser(p)
        \/ GetChatsFind(p)
        \/ GetChatsByUserRespond(p)
        \/ ReqAddParticipant(p)
        \/ AddParticipantUpdate(p)
        \/ AddParticipantRespond(p)
        \/ RouteEnd(p)

SpecRoutes == Init /\ [][NextRoutes]_vars

\* ----------------------------------------------------------------- sockets

\* A join that takes a connection that is in the room out of it.
JoinToggle(members, conn) ==
    IF conn \in members THEN members \ {conn} ELSE members \cup {conn}

\* conn.join(chatId): the room is a set of connections.
Join(members, conn) == members \cup {conn}

\* A leave that empties the room of every connection.
LeaveEmptiesRoom(members, conn) == {}

\* conn.leave(chatId)
Leave(members, conn) == members \ {conn}

\* conn.on('joinChat', chatId => conn.join(chatId)): the rooms after the
\* handler. A room that is the room of no chat id (the id undefined) is a room
\* nothing is emitted to, and is not kept.
OnJoinChat(conn, chatId) ==
    IF chatId \in DOMAIN rooms
    THEN [rooms EXCEPT ![chatId] = Join(@, conn)]
    ELSE rooms

\* conn.on('leaveChat', chatId => { if (chatId !== undefined) conn.leave(chatId) })
OnLeaveChat(conn, chatId) ==
    IF chatId # UndefinedChatId
    THEN [rooms EXCEPT ![chatId] = Leave(@, conn)]
    ELSE rooms

\* The server handles a joinChat event of connection conn.
JoinChat(conn, chatId) ==
    /\ rooms' = OnJoinChat(conn, chatId)
    /\ lastSocket' = [event |-> "joinChat", conn |-> conn, chatId |-> chatId,
                      before |-> rooms]
    /\ UNCHANGED <<users, messages, chats, proc, calls, committed, clients, pages>>

\* The server handles a leaveChat event of connection conn.
LeaveChat(conn, chatId) ==
    /\ rooms' = OnLeaveChat(conn, chatId)
    /\ lastSocket' = [event |-> "leaveChat", conn |-> conn, chatId |-> chatId,
                      before |-> rooms]
    /\ UNCHANGED <<users, messages, chats, proc, calls, committed, clients, pages>>

\* The socket events of the clients.
NextSockets ==
    \E conn \in Conns :
        \/ \E chatId \in RoomIds : JoinChat(conn, chatId)
        \/ \E chatId \in RoomIds \cup {UndefinedChatId} : LeaveChat(conn, chatId)

SpecSockets == Init /\ [][NextSockets]_vars

\* The requests that create chats and add messages to them, one at a time,
\* while clients join and leave the rooms of the chats.
NextRooms ==
    \/ NextSockets
    \/ ReqCreateChat("p1")
    \/ SaveChatLookup("p1")
    \/ SaveChatCreate("p1")
    \/ SaveChatCreateMessage("p1")
    \/ CreateChatRespond("p1")
    \/ ReqAddMessage("p1")
    \/ CreateMessage("p1")
    \/ AddMessageCreated("p1")
    \/ AddMessageFind("p1")
    \/ AddMessageUser("p1")
    \/ AddMessagePush("p1")
    \/ AddMessageRespond("p1")
    \/ RouteEnd("p1")

SpecRooms == Init /\ [][NextRooms]_vars

\* ----------------------------------------------------- direct-message pages

\* selectedChat?._id
ChatIdOf(chat) == IF "_id" \in DOMAIN chat THEN chat._id ELSE UndefinedChatId

\* socket.emit(event, chatId): the event is on its way to the server.
SocketEmit(c, event, chatId) ==
    [c EXCEPT !.outbox = Append(@, [event |-> event, chatId |-> chatId])]

\* setSelectedChat(chat) and the effect that depends on selectedChat?._id:
\* when the id changes, the cleanup of the effect emits leaveChat with the id
\* it closed over, the id of before, and the effect listens again. of is the
\* id of the stored chat that chat is a copy of.
SetSelectedChat(c, chat, of) ==
    LET c2 == [c EXCEPT !.selectedChat = chat, !.showing = of]
    IN  IF ChatIdOf(chat) # ChatIdOf(c.selectedChat)
        THEN SocketEmit(c2, "leaveChat", ChatIdOf(c.selectedChat))
        ELSE c2

\* handleChatUpdate(chatUpdate): a newMessage event sets selectedChat to the
\* chat of the event; a created event adds to the list of chats, which is no
\* part of selectedChat.
HandleChatUpdate(c, chatUpdate) ==
    IF chatUpdate.type = "newMessage"
    THEN SetSelectedChat(c, chatUpdate.chat, ChatIdOf(chatUpdate.chat))
    ELSE c

\* A handler of the page ends: it awaits nothing.
HandlerEnds(c) ==
    [c EXCEPT !.handler = "none", !.awaiting = "", !.asked = UndefinedChatId]

\* The page of conn sends a request: process p of the server starts the route
\* handler as record r, and handler h of the page awaits its response.
Await(conn, p, r, h, chatId) ==
    /\ proc[p].pc = "idle"
    /\ calls < MaxCalls
    /\ calls' = calls + 1
    /\ Set(p, r)
    /\ clients' = [clients EXCEPT ![conn].handler = h, ![conn].awaiting = p,
                                  ![conn].asked = chatId]
    /\ UNCHANGED <<users, messages, chats, committed, rooms, lastSocket, pages>>

\* The response of the request handler h of the page awaits has come: the
\* page becomes what after(response) makes of it.
Awaited(conn, h) ==
    /\ clients[conn].handler = h
    /\ proc[clients[conn].awaiting].pc = "responded"

\* The first run of the effect: socket.on('chatUpdate', handleChatUpdate).
Mount(conn) ==
    /\ ~clients[conn].mounted
    /\ clients' = [clients EXCEPT ![conn].mounted = TRUE]
    /\ UNCHANGED <<users, messages, chats, proc, calls, committed, rooms, lastSocket, pages>>

\* A chatUpdate event reaches the page: handleChatUpdate runs.
ReceiveChatUpdate(conn) ==
    /\ clients[conn].mounted
    /\ clients[conn].inbox # <<>>
    /\ clients' = [clients EXCEPT ![conn] =
                      HandleChatUpdate([@ EXCEPT !.inbox = Tail(@)],
                                       Head(clients[conn].inbox))]
    /\ UNCHANGED <<users, messages, chats, proc, calls, committed, rooms, lastSocket, pages>>

\* handleSendMessage, up to the await of sendMessage: the user has typed a
\* text that is not blank and a chat with an _id is selected.
HandleSendMessage(conn, p) ==
    /\ clients[conn].mounted
    /\ clients[conn].handler = "none"
    /\ ChatIdOf(clients[conn].selectedChat) # UndefinedChatId
    /\ Await(conn, p,
             AddMessageRequest(ChatIdOf(clients[conn].selectedChat),
                               [msg |-> "hi", msgFrom |-> ClientUser[conn],
                                msgDateTime |-> 2]),
             "send", ChatIdOf(clients[conn].selectedChat))

\* handleSendMessage after sendMessage has resolved: setSelectedChat(updatedChat);
\* on another status than 200 sendMessage throws and the handler with it.
MessageSent(conn) ==
    /\ Awaited(conn, "send")
    /\ LET c == clients[conn]
           r == proc[c.awaiting]
       IN  /\ clients' = [clients EXCEPT ![conn] =
                    IF r.status = 200
                    THEN HandlerEnds(SetSelectedChat(c, r.sent.chat, ChatIdOf(r.sent.chat)))
                    ELSE HandlerEnds(c)]
           /\ Set(c.awaiting, IdleProc)
    /\ UNCHANGED <<users, messages, chats, calls, committed, rooms, lastSocket, pages>>

\* handleChatSelect(chatID), up to the await of getChatById: GET /:chatId.
HandleChatSelect(conn, p) ==
    /\ clients[conn].mounted
    /\ clients[conn].handler = "none"
    /\ \E chatID \in 1..(Len(chats) + 1) :
            Await(conn, p, GetChatRequest(chatID), "select", chatID)

\* handleChatSelect after getChatById has resolved: setSelectedChat(chat) and
\* handleJoinChat(chat._id); on another status than 200 getChatById throws and
\* the handler with it.
ChatSelected(conn) ==
    /\ Awaited(conn, "select")
    /\ LET c == clients[conn]
           r == proc[c.awaiting]
           chat == r.sent.chat
       IN  /\ clients' = [clients EXCEPT ![conn] =
                    IF r.status = 200
                    THEN HandlerEnds(SetSelectedChat(
                            SocketEmit(c, "joinChat", ChatIdOf(chat)), chat, c.asked))
                    ELSE HandlerEnds(c)]
           /\ Set(c.awaiting, IdleProc)
    /\ UNCHANGED <<users, messages, chats, calls, committed, rooms, lastSocket, pages>>

\* handleCreateChat, up to the await of createChat([user.username, chatToCreate]):
\* POST /createChat, with no message or with a first message.
HandleCreateChat(conn, p) ==
    /\ clients[conn].mounted
    /\ clients[conn].handler = "none"
    /\ \E ms \in { <<>>, <<Hello(1)>> } :
            Await(conn, p,
                  CreateChatRequest([present |-> {"participants", "messages"},
                                     participants |-> <<ClientUser[conn], OtherUser[conn]>>,
                                     messages |-> ms]),
                  "create", UndefinedChatId)

\* handleCreateChat after createChat has resolved: setSelectedChat(newChat) and
\* handleJoinChat(newChat._id); on another status than 200 createChat throws
\* and the handler with it.
ChatCreated(conn) ==
    /\ Awaited(conn, "create")
    /\ LET c == clients[conn]
           r == proc[c.awaiting]
           newChat == r.sent.chat
       IN  /\ clients' = [clients EXCEPT ![conn] =
                    IF r.status = 200
                    THEN HandlerEnds(SetSelectedChat(
                            SocketEmit(c, "joinChat", ChatIdOf(newChat)), newChat,
                            ChatIdOf(newChat)))
                    ELSE HandlerEnds(c)]
           /\ Set(c.awaiting, IdleProc)
    /\ UNCHANGED <<users, messages, chats, calls, committed, rooms, lastSocket, pages>>

\* The server handles the next socket event of connection conn.
SocketDeliver(conn) ==
    /\ clients[conn].outbox # <<>>
    /\ LET e == Head(clients[conn].outbox)
       IN  /\ rooms' = IF e.event = "joinChat" THEN OnJoinChat(conn, e.chatId)
                                               ELSE OnLeaveChat(conn, e.chatId)
           /\ lastSocket' = [event |-> e.event, conn |-> conn, chatId |-> e.chatId,
                             before |-> rooms]
    /\ clients' = [clients EXCEPT ![conn].outbox = Tail(@)]
    /\ UNCHANGED <<users, messages, chats, proc, calls, committed, pages>>

\* The response of a request no page awaits has gone out.
RouteEndsUnawaited(p) ==
    /\ \A conn \in Conns : clients[conn].awaiting # p
    /\ RouteEnd(p)

\* Chat 1 is stored, and the pages of both connections are open on it and
\* in its room.
InitFanOut ==
    /\ users = InitialUsers
    /\ messages = <<>>
    /\ chats = << [participants |-> <<"u_alice", "u_bob">>, messages |-> <<>>] >>
    /\ proc = [p \in Procs |-> IdleProc]
    /\ calls = 0
    /\ committed = << <<>> >>
    /\ rooms = [c \in RoomIds |-> IF c = 1 THEN Conns ELSE {}]
    /\ lastSocket = NoSocketEvent
    /\ clients = [conn \in Conns |->
                    [NoClient EXCEPT !.mounted = TRUE, !.showing = 1,
                                     !.selectedChat = [_id |-> 1,
                                                       participants |-> <<"u_alice", "u_bob">>,
                                                       messages |-> <<>>]]]
    /\ pages = NoPages

\* Messages are added to the chat, by the pages and by callers that have no
\* page, and the events reach the pages.
NextFanOut ==
    \/ \E p \in Procs :
        \/ ReqAddMessage(p)
        \/ CreateMessage(p)
        \/ AddMessageCreated(p)
        \/ AddMessageFind(p)
        \/ AddMessageUser(p)
        \/ AddMessagePush(p)
        \/ AddMessageRespond(p)
        \/ RouteEndsUnawaited(p)
    \/ \E conn \in Conns :
        \/ \E p \in Procs : HandleSendMessage(conn, p)
        \/ MessageSent(conn)
        \/ ReceiveChatUpdate(conn)

SpecFanOut == InitFanOut /\ [][NextFanOut]_vars

\* The direct-message page of connection c1: its user selects and creates
\* chats, while others add messages to the chats.
NextDirectMessage ==
    \/ \E p \in Procs :
        \/ HandleChatSelect("c1", p)
        \/ HandleCreateChat("c1", p)
        \/ GetChatFind(p)
        \/ GetChatRespond(p)
        \/ SaveChatLookup(p)
        \/ SaveChatCreate(p)
        \/ SaveChatCreateMessage(p)
        \/ CreateChatRespond(p)
        \/ ReqAddMessage(p)
        \/ CreateMessage(p)
        \/ AddMessageCreated(p)
        \/ AddMessageFind(p)
        \/ AddMessageUser(p)
        \/ AddMessagePush(p)
        \/ AddMessageRespond(p)
        \/ RouteEndsUnawaited(p)
    \/ Mount("c1")
    \/ ChatSelected("c1")
    \/ ChatCreated("c1")
    \/ ReceiveChatUpdate("c1")
    \/ SocketDeliver("c1")

SpecDirectMessage == Init /\ [][NextDirectMessage]_vars

\* ------------------------------------------------------------- Nim game page

MOVE_MIN_OBJECTS == 1
MOVE_MAX_OBJECTS == 3

DigitChars == {"0", "1", "2", "3", "4", "5", "6", "7", "8", "9"}

DigitValue(ch) ==
    CASE ch = "0" -> 0 [] ch = "1" -> 1 [] ch = "2" -> 2 [] ch = "3" -> 3
      [] ch = "4" -> 4 [] ch = "5" -> 5 [] ch = "6" -> 6 [] ch = "7" -> 7
      [] ch = "8" -> 8 [] ch = "9" -> 9

\* The text without the blanks at its start.
RECURSIVE SkipBlanks(_)
SkipBlanks(text) ==
    IF text # <<>> /\ Head(text) = " " THEN SkipBlanks(Tail(text)) ELSE text

\* The digits the text starts with.
RECURSIVE LeadingDigits(_)
LeadingDigits(text) ==
    IF text # <<>> /\ Head(text) \in DigitChars
    THEN <<Head(text)>> \o LeadingDigits(Tail(text))
    ELSE <<>>

\* The number the digits write in base 10.
RECURSIVE DecimalValue(_)
DecimalValue(digits) ==
    IF digits = <<>> THEN 0
    ELSE 10 * DecimalValue(SubSeq(digits, 1, Len(digits) - 1))
         + DigitValue(digits[Len(digits)])

\* Number.parseInt(value, 10): blanks at the start are skipped, then a sign,
\* then the digits up to the first character that is none; NaN when there is
\* no digit there.
ParseInt(value) ==
    LET text == SkipBlanks(value)
        negative == text # <<>> /\ Head(text) = "-"
        digits == LeadingDigits(IF negative THEN Tail(text) ELSE text)
    IN  IF digits = <<>> THEN NaN
        ELSE Num((IF negative THEN -1 ELSE 1) * DecimalValue(digits))

\* a < b and a > b on numbers: false when either is NaN.
LessThan(a, b) == ~a.nan /\ ~b.nan /\ a.val < b.val
GreaterThan(a, b) == LessThan(b, a)

Nim(next) ==
    /\ pages' = [pages EXCEPT !.nim = next]
    /\ UNCHANGED <<users, messages, chats, proc, committed, rooms, lastSocket, clients>>

\* handleInputChange(e): the change event of the number input with the text
\* value.
HandleInputChange(value) ==
    LET numObjects == ParseInt(value)
        typed == [pages.nim EXCEPT !.value = value]
    IN  /\ IF \/ LessThan(numObjects, Num(MOVE_MIN_OBJECTS))
              \/ GreaterThan(numObjects, Num(MOVE_MAX_OBJECTS))
           THEN Nim(typed)
           ELSE Nim([typed EXCEPT !.move = GameMove(numObjects)])
        /\ UNCHANGED calls

\* handleMakeMove: if (move) socket.emit('makeMove', move)
HandleMakeMove ==
    /\ calls < MaxCalls
    /\ ~pages.nim.move.isNull
    /\ calls' = calls + 1
    /\ Nim([pages.nim EXCEPT !.emitted = Append(@, pages.nim.move)])

\* The Nim page: the player types into the number input and makes moves.
NextNim ==
    \/ \E value \in NimInputs : HandleInputChange(value)
    \/ HandleMakeMove

SpecNim == Init /\ [][NextNim]_vars

\* ---------------------------------------------------------- users list page

\* prevUserList.findIndex(prevUser => prevUser.username === user.username);
\* 0 stands for -1.
FindUserIndex(prevUserList, user) ==
    IF \E k \in 1..Len(prevUserList) : prevUserList[k].username = user.username
    THEN CHOOSE k \in 1..Len(prevUserList) :
            /\ prevUserList[k].username = user.username
            /\ \A j \in 1..(k - 1) : prevUserList[j].username # user.username
    ELSE 0

\* removeUserFromList(prevUserList, user)
removeUserFromList(prevUserList, user) ==
    SelectSeq(prevUserList, LAMBDA prevUser : prevUser.username # user.username)

\* An add that puts the user at the front whether the list has it or not.
AddUserAtFront(prevUserList, user) == <<user>> \o prevUserList

\* addUserToList(prevUserList, user)
addUserToList(prevUserList, user) ==
    LET userIndex == FindUserIndex(prevUserList, user)
    IN  IF userIndex = 0
        THEN <<user>> \o prevUserList
        ELSE [index \in 1..Len(prevUserList) |->
                IF index = userIndex THEN user ELSE prevUserList[index]]

UsersList(next) ==
    /\ pages' = [pages EXCEPT !.usersList = next]
    /\ UNCHANGED <<users, messages, chats, proc, calls, committed, rooms, lastSocket,
                   clients>>

\* The effect of the page: fetchData() is called, up to its await of
\* getUsers(), and socket.on('userUpdate', handleModifiedUserUpdate).
MountUsersList ==
    /\ ~pages.usersList.listening
    /\ UsersList([pages.usersList EXCEPT !.listening = TRUE, !.fetching = TRUE])

\* fetchData after getUsers has resolved: setUserList(res || []), or the
\* failure is logged.
UsersFetched ==
    /\ pages.usersList.fetching
    /\ \/ \E res \in UserListInputs :
            UsersList([pages.usersList EXCEPT !.fetching = FALSE, !.userList = res])
       \/ UsersList([pages.usersList EXCEPT !.fetching = FALSE])

\* handleModifiedUserUpdate(userUpdate)
HandleModifiedUserUpdate(type, user) ==
    /\ pages.usersList.listening
    /\ LET ul == [pages.usersList EXCEPT !.last = [type |-> type, user |-> user]]
       IN  CASE type = "created" ->
                    UsersList([ul EXCEPT !.userList = addUserToList(@, user)])
             [] type = "deleted" ->
                    UsersList([ul EXCEPT !.userList = removeUserFromList(@, user)])
             [] OTHER -> UsersList(ul)

\* The users list page: the list is fetched and userUpdate events arrive.
NextUsersList ==
    \/ MountUsersList
    \/ UsersFetched
    \/ \E type \in {"created", "deleted", "updated"}, user \in UserInputs :
            HandleModifiedUserUpdate(type, user)

SpecUsersList == Init /\ [][NextUsersList]_vars

\* ----------------------------------------------------- profile settings page

\* Texts the user may type into the two password fields and the biography.
PasswordInputs == {"", "a", "b"}
BiographyInputs == {"bio1", "bio2"}

\* setMessage(message, type)
setMessage(pr, message, type) ==
    IF type = "success"
    THEN [pr EXCEPT !.errorMessage = Null, !.successMessage = message]
    ELSE IF type = "error"
         THEN [pr EXCEPT !.errorMessage = message, !.successMessage = Null]
         ELSE pr

\* validatePasswords()
validatePasswords(pr) == pr.newPassword # "" /\ pr.newPassword = pr.confirmNewPassword

Profile(next) ==
    /\ pages' = [pages EXCEPT !.profile = next]
    /\ UNCHANGED <<users, messages, chats, proc, calls, committed, rooms, lastSocket,
                   clients>>

\* The page is open and handler h of it awaits nothing.
ProfileIdle(h) ==
    /\ pages.profile.mounted
    /\ ~pages.profile.navigated
    /\ h \notin pages.profile.pending

\* Handler h of the page awaits a request, which now resolves.
ProfileAwaited(h) ==
    /\ ~pages.profile.navigated
    /\ h \in pages.profile.pending

\* The effect of the page: fetchUserData(), up to its await of
\* getUserByUsername(username).
MountProfile ==
    /\ ~pages.profile.mounted
    /\ Profile([pages.profile EXCEPT !.mounted = TRUE, !.loading = TRUE,
                                     !.pending = @ \cup {"fetch"}])

\* fetchUserData after getUserByUsername has resolved or thrown.
UserDataFetched ==
    /\ ProfileAwaited("fetch")
    /\ \E ok \in BOOLEAN :
        LET pr == [pages.profile EXCEPT !.pending = @ \ {"fetch"}, !.loading = FALSE]
        IN  IF ok
            THEN Profile([pr EXCEPT !.userData = UserData("bio1"), !.newBio = "bio1"])
            ELSE Profile([pr EXCEPT !.errorMessage = MsgErrFetch, !.userData = NoUserData])

\* setNewPassword, setConfirmNewPassword and setNewBio, called by the fields
\* of the page.
SetNewPassword(text) ==
    /\ ProfileIdle("")
    /\ Profile([pages.profile EXCEPT !.newPassword = text])

SetConfirmNewPassword(text) ==
    /\ ProfileIdle("")
    /\ Profile([pages.profile EXCEPT !.confirmNewPassword = text])

SetNewBio(text) ==
    /\ ProfileIdle("")
    /\ Profile([pages.profile EXCEPT !.newBio = text, !.editBioMode = TRUE])

\* handleResetPassword, up to its await of resetPassword or to its end.
HandleResetPassword ==
    /\ ProfileIdle("reset")
    /\ LET pr == pages.profile
           cleared(q) == [q EXCEPT !.newPassword = "", !.confirmNewPassword = ""]
       IN  IF pr.newPassword = ""
           THEN Profile(cleared(setMessage(pr, MsgPasswordEmpty, "error")))
           ELSE IF validatePasswords(pr)
                THEN Profile([pr EXCEPT !.pending = @ \cup {"reset"}])
                ELSE Profile(cleared(setMessage(pr, MsgPasswordMismatch, "error")))

\* handleResetPassword after resetPassword has resolved; when it throws, the
\* handler throws with it and sets nothing.
PasswordReset ==
    /\ ProfileAwaited("reset")
    /\ \E ok \in BOOLEAN :
        LET pr == [pages.profile EXCEPT !.pending = @ \ {"reset"}]
        IN  IF ok
            THEN Profile([setMessage(pr, MsgPasswordReset, "success") EXCEPT
                            !.newPassword = "", !.confirmNewPassword = ""])
            ELSE Profile(pr)

\* handleUpdateBiography, up to its await of updateBiography(username, newBio).
HandleUpdateBiography ==
    /\ ProfileIdle("bio")
    /\ Profile([pages.profile EXCEPT !.pending = @ \cup {"bio"}])

\* handleUpdateBiography after updateBiography has resolved or thrown.
BiographyUpdated ==
    /\ ProfileAwaited("bio")
    /\ \E ok \in BOOLEAN, biography \in BiographyInputs :
        LET pr == [pages.profile EXCEPT !.pending = @ \ {"bio"}]
        IN  IF ok
            THEN Profile(setMessage([pr EXCEPT !.editBioMode = FALSE,
                                               !.userData = UserData(biography)],
                                    MsgBioUpdated, "success"))
            ELSE Profile(setMessage(pr, MsgServiceError, "error"))

\* handleDeleteUser: the confirmation is shown and the action is kept.
HandleDeleteUser ==
    /\ ProfileIdle("")
    /\ Profile([pages.profile EXCEPT !.showConfirmation = TRUE, !.pendingAction = TRUE])

\* The user confirms: pendingAction() runs, up to its await of deleteUser.
ConfirmDeleteUser ==
    /\ ProfileIdle("delete")
    /\ pages.profile.pendingAction
    /\ pages.profile.showConfirmation
    /\ Profile([pages.profile EXCEPT !.pending = @ \cup {"delete"}])

\* pendingAction after deleteUser has resolved or thrown.
UserDeleted ==
    /\ ProfileAwaited("delete")
    /\ \E ok \in BOOLEAN :
        LET pr == [pages.profile EXCEPT !.pending = @ \ {"delete"},
                                       !.showConfirmation = FALSE]
        IN  IF ok
            THEN Profile([pr EXCEPT !.successMessage = MsgUserDeleted, !.navigated = TRUE])
            ELSE Profile([pr EXCEPT !.errorMessage = MsgServiceError])

\* The profile settings page of the user's own profile.
NextProfile ==
    \/ MountProfile
    \/ UserDataFetched
    \/ \E text \in PasswordInputs : SetNewPassword(text)
    \/ \E text \in PasswordInputs : SetConfirmNewPassword(text)
    \/ \E text \in BiographyInputs : SetNewBio(text)
    \/ HandleResetPassword
    \/ PasswordReset
    \/ HandleUpdateBiography
    \/ BiographyUpdated
    \/ HandleDeleteUser
    \/ ConfirmDeleteUser
    \/ UserDeleted

SpecProfile == Init /\ [][NextProfile]_vars

\* ------------------------------------------------------------------ claims

Range(seq) == { seq[k] : k \in 1..Len(seq) }

Count(seq, x) == Cardinality({ k \in 1..Len(seq) : seq[k] = x })

IsPrefix(a, b) == Len(a) <= Len(b) /\ SubSeq(b, 1, Len(a)) = a

\* a is b with some elements left out.
IsSubseq(a, b) ==
    \E f \in [1..Len(a) -> 1..Len(b)] :
        /\ \A k \in 1..Len(a) : b[f[k]] = a[k]
        /\ \A j, k \in 1..Len(a) : j < k => f[j] < f[k]

Done(p, op) == proc[p].pc = "done" /\ proc[p].op = op

\* Process p takes the step.
Steps(p) == proc'[p] # proc[p]

ChatExists(c) == c \in 1..Len(chats)
MessageExists(m) == m \in 1..Len(messages)

AllResolve(names) == \A k \in 1..Len(names) : UserFindOne(names[k]) # Null
SomeRejected(list) == \E k \in 1..Len(list) : MessageRejected(list[k])
ResolvedIds(names) == [k \in 1..Len(names) |-> UserFindOne(names[k])]

\* What a saveChat call of record r has left in storage: the chat it created
\* and the messages it created.
LeftNothing(r) ==
    /\ ~ChatExists(r.chat._id)
    /\ \A k \in 1..Len(r.created) : ~MessageExists(r.created[k])

\* C1: a createChat whose initial messages contain an invalid message (empty
\* text, or a sender that is no user) ends in an error and leaves no chat and
\* no message of its own in storage.
C1_InvalidMessageLeavesNothing ==
    \A p \in Procs :
        (Done(p, "saveChat") /\ SomeRejected(proc[p].payload.messages))
            => (ErrorIn(proc[p].result) /\ LeftNothing(proc[p]))

\* C2: a createChat with a username that does not resolve writes nothing: the
\* step that looks the participants up ends the call with an error, and no
\* step of the call changes the chat collection or the message collection.
C2_UnknownParticipantNoWrite ==
    [][ \A p \in Procs :
          ( /\ proc[p].op = "saveChat"
            /\ proc[p].pc # "done"
            /\ ~AllResolve(proc[p].payload.participants)
            /\ Steps(p) )
          => ( /\ proc'[p].pc = "done"
               /\ ErrorIn(proc'[p].result)
               /\ chats' = chats
               /\ messages' = messages ) ]_vars

C2_Witness ==
    \E p \in Procs :
        /\ Done(p, "saveChat")
        /\ ~AllResolve(proc[p].payload.participants)
        /\ proc[p].result = Err(ErrNoUser)
        /\ Len(proc[p].payload.messages) > 0

\* C3: when createChat returns a chat, the stored chat is fully formed: it was
\* created with the resolved ids of the given usernames as its participants and
\* it holds every initial message of the payload, in payload order (what other
\* calls have added to the chat since is theirs).
C3_ReturnedChatIsFullyFormed ==
    \A p \in Procs :
        (Done(p, "saveChat") /\ proc[p].result.kind = "chat")
            => LET r == proc[p]
                   c == r.result.chat._id
               IN  /\ ChatExists(c)
                   /\ IsPrefix(ResolvedIds(r.payload.participants), chats[c].participants)
                   /\ Len(r.created) = Len(r.payload.messages)
                   /\ \A k \in 1..Len(r.created) :
                        /\ MessageExists(r.created[k])
                        /\ messages[r.created[k]].msg = r.payload.messages[k].msg
                   /\ IsSubseq(r.created, chats[c].messages)

\* C4: a createChat whose participants all resolve and whose list of initial
\* messages is empty returns the created chat, with those participants and no
\* message, unless the storage failed.
C4_EmptyMessagesReturnsChat ==
    \A p \in Procs :
        ( /\ Done(p, "saveChat")
          /\ AllResolve(proc[p].payload.participants)
          /\ proc[p].payload.messages = <<>>
          /\ proc[p].result # Err(ErrCreateChat) )
        => ( /\ proc[p].result.kind = "chat"
             /\ proc[p].result.chat.participants = ResolvedIds(proc[p].payload.participants)
             /\ proc[p].result.chat.messages = <<>> )

\* C5: no append is lost and none is doubled, in every interleaving: a chat
\* holds each message exactly as many times as addMessageToChat calls for that
\* chat and message have returned the chat, and its length is their number.
C5_NoLostNoDuplicateAppend ==
    \A c \in 1..Len(chats) :
        /\ Len(chats[c].messages) = Len(committed[c])
        /\ \A m \in Range(committed[c]) \cup Range(chats[c].messages) :
              Count(chats[c].messages, m) = Count(committed[c], m)

\* Two appends to one chat were in flight together and both are in: a saveChat
\* has returned the chat it created, and the chat it got back holds an append
\* of another call between its own.
C5_Witness ==
    \E p, q \in Procs :
        /\ p # q
        /\ Done(q, "saveChat") /\ proc[q].result.kind = "chat"
        /\ Done(p, "addMessageToChat") /\ proc[p].result.kind = "chat"
        /\ proc[p].chatId = proc[q].chat._id
        /\ Len(proc[q].created) = 2
        /\ Len(proc[p].result.chat.messages) = 2
        /\ Len(chats[proc[p].chatId].messages) = 3

\* C6: the order of the messages in a chat is the order in which the appends
\* committed, whatever the messages' send times and whichever call began first.
C6_OrderIsCommitOrder ==
    \A c \in 1..Len(chats) : chats[c].messages = committed[c]

\* Two appends in flight together, committed against their send times: a
\* saveChat appended its first message, another call appended one sent at time
\* 2, and the saveChat then appended its second message, sent at time 1.
C6_Witness ==
    \E p, q \in Procs :
        /\ p # q
        /\ Done(q, "saveChat") /\ proc[q].result.kind = "chat"
        /\ Done(p, "addMessageToChat") /\ proc[p].result.kind = "chat"
        /\ proc[p].chatId = proc[q].chat._id
        /\ LET s == chats[proc[p].chatId].messages
           IN  /\ Len(s) = 3
               /\ Ids(proc[p].result.chat.messages) = SubSeq(s, 1, 2)
               /\ Ids(proc[q].result.chat.messages) = s
               /\ s[2] = proc[p].messageId
               /\ s[3] = proc[q].created[2]
               /\ messages[s[2]].msgDateTime > messages[s[3]].msgDateTime

\* What the addMessageToChat that process p runs has returned after the step:
\* to its caller, or into saveChat's chatResponse.
AddMessageResponse(p) ==
    IF proc[p].op = "saveChat" THEN proc'[p].chatResponse ELSE proc'[p].result

\* C7: the message sequence of a chat is append-only: in every step each chat
\* is still there and its old sequence is a prefix of its new one, and a step
\* in which addMessageToChat returns the chat has put its message at the tail.
C7_AppendOnly ==
    [][ /\ \A c \in 1..Len(chats) :
              /\ c \in 1..Len(chats')
              /\ IsPrefix(chats[c].messages, chats'[c].messages)
        /\ \A p \in Procs :
              ( /\ proc[p].pc = "am_push"
                /\ Steps(p)
                /\ AddMessageResponse(p).kind = "chat" )
              => ( /\ Ids(AddMessageResponse(p).chat.messages)
                        = Append(chats[proc[p].chatId].messages, proc[p].messageId)
                   /\ chats'[proc[p].chatId].messages
                        = Ids(AddMessageResponse(p).chat.messages) ) ]_vars

C7_Witness ==
    \E p \in Procs :
        /\ Done(p, "addMessageToChat")
        /\ proc[p].result.kind = "chat"
        /\ Len(proc[p].result.chat.messages) >= 2
        /\ proc[p].result.chat.messages[1]._id # proc[p].messageId

\* C8: addMessageToChat with a message id the message collection does not hold
\* ends at the lookup with an error and changes no chat.
C8_UnknownMessageNoChange ==
    [][ \A p \in Procs :
          ( /\ proc[p].op = "addMessageToChat"
            /\ proc[p].pc = "am_find"
            /\ ~MessageExists(proc[p].messageId)
            /\ Steps(p) )
          => ( /\ proc'[p].pc = "done"
               /\ ErrorIn(proc'[p].result)
               /\ chats' = chats ) ]_vars

C8_Witness ==
    \E p \in Procs :
        /\ Done(p, "addMessageToChat")
        /\ proc[p].result = Err(ErrNoMessage)
        /\ ChatExists(proc[p].chatId)
        /\ Len(chats[proc[p].chatId].messages) > 0

\* C9: addMessageToChat with a chat id the chat collection does not hold
\* creates no chat and changes none, and its update ends the call with an error.
C9_UnknownChatNoChange ==
    [][ \A p \in Procs :
          ( /\ proc[p].op = "addMessageToChat"
            /\ proc[p].pc \in {"am_find", "am_user", "am_push"}
            /\ ~ChatExists(proc[p].chatId)
            /\ Steps(p) )
          => ( /\ chats' = chats
               /\ proc[p].pc = "am_push"
                    => (proc'[p].pc = "done" /\ ErrorIn(proc'[p].result)) ) ]_vars

C9_Witness ==
    \E p \in Procs :
        /\ Done(p, "addMessageToChat")
        /\ proc[p].result = Err(ErrNoChat)
        /\ MessageExists(proc[p].messageId)
        /\ Len(chats) > 0

\* C10: every message a chat refers to is in the message collection.
C10_NoDanglingReference ==
    \A c \in 1..Len(chats) :
        \A k \in 1..Len(chats[c].messages) : MessageExists(chats[c].messages[k])

C10_Witness ==
    \E p \in Procs :
        /\ Done(p, "addMessageToChat")
        /\ proc[p].result.kind = "chat"
        /\ proc[p].messageId \in Range(chats[proc[p].chatId].messages)

\* C11: every stored message is referenced by at most one chat, and at most
\* once in that chat's sequence; the message of an addMessageToChat that
\* returned the chat is in a chat's sequence.
C11_MessageInOneChatOnce ==
    /\ \A c1, c2 \in 1..Len(chats) :
          \A k1 \in 1..Len(chats[c1].messages), k2 \in 1..Len(chats[c2].messages) :
              chats[c1].messages[k1] = chats[c2].messages[k2]
                  => (c1 = c2 /\ k1 = k2)
    /\ \A p \in Procs :
          (Done(p, "addMessageToChat") /\ proc[p].result.kind = "chat")
              => \E c \in 1..Len(chats) : proc[p].messageId \in Range(chats[c].messages)

\* C12: the participants of a chat contain no user id twice.
C12_NoDuplicateParticipant ==
    \A c \in 1..Len(chats) :
        \A j, k \in 1..Len(chats[c].participants) :
            chats[c].participants[j] = chats[c].participants[k] => j = k

\* C13: participants are never removed and chats never cease to exist: in
\* every step each chat is still there and every user that was a participant
\* of it still is, the participants it had keeping their places.
C13_ParticipantsNeverRemoved ==
    [][ \A c \in 1..Len(chats) :
          /\ c \in 1..Len(chats')
          /\ Range(chats[c].participants) \subseteq Range(chats'[c].participants)
          /\ IsPrefix(chats[c].participants, chats'[c].participants) ]_vars

\* A chat created with alice and bob has had a user added to it, and alice and
\* bob are still its first two participants.
C13_Witness ==
    \E p \in Procs :
        /\ Done(p, "addParticipantToChat")
        /\ proc[p].result.kind = "chat"
        /\ LET ps == chats[proc[p].chatId].participants
           IN  /\ Len(ps) = 3
               /\ SubSeq(ps, 1, 2) = <<"u_alice", "u_bob">>
               /\ ps[3] = proc[p].userId

\* The user id is the _id of a user of the collection.
UserExists(userId) == \E username \in DOMAIN users : users[username] = userId

\* C14: an addParticipantToChat with a userId that is the id of no user ends
\* with an error and leaves the participants of every chat as they were.
C14_UnknownUserRejected ==
    [][ \A p \in Procs :
          ( /\ proc[p].pc = "ap_update"
            /\ ~UserExists(proc[p].userId)
            /\ Steps(p) )
          => ( /\ proc'[p].pc = "done"
               /\ ErrorIn(proc'[p].result)
               /\ chats' = chats ) ]_vars

\* C15: an addParticipantToChat with a chat id the collection does not hold
\* ends with an error, creates no chat and changes none; with a chat that
\* exists and a user that exists, a call that returns the chat returns it with
\* its previous participants followed by the new user, which is what is
\* stored, and a call that does not (the storage failed) changes nothing.
C15_AddParticipantAppendsOrFails ==
    [][ \A p \in Procs :
          (proc[p].pc = "ap_update" /\ Steps(p))
          => LET r == proc[p]
                 res == proc'[p].result
             IN  /\ proc'[p].pc = "done"
                 /\ ~ChatExists(r.chatId)
                      => (ErrorIn(res) /\ chats' = chats)
                 /\ (ChatExists(r.chatId) /\ UserExists(r.userId))
                      => IF res.kind = "chat"
                         THEN /\ res.chat._id = r.chatId
                              /\ res.chat.participants
                                   = Append(chats[r.chatId].participants, r.userId)
                              /\ chats'[r.chatId].participants = res.chat.participants
                              /\ \A c \in 1..Len(chats) : c # r.chatId => chats'[c] = chats[c]
                              /\ Len(chats') = Len(chats)
                         ELSE ErrorIn(res) /\ chats' = chats ]_vars

\* A chat exists, and an addParticipantToChat of an existing user for the id
\* of no chat has ended with 'No chat found'.
C15_Witness ==
    \E p \in Procs :
        /\ Done(p, "addParticipantToChat")
        /\ proc[p].result = Err(ErrNoChat)
        /\ UserExists(proc[p].userId)
        /\ ~ChatExists(proc[p].chatId)
        /\ Len(chats) > 0

\* C16: a createMessage whose sender is no user ends with an error and
\* persists no message; a createMessage that returns a message has persisted
\* exactly that one message, and it has changed no chat.
C16_CreateMessagePersistsOneOrNone ==
    [][ \A p \in Procs :
          (proc[p].pc = "cm_save" /\ Steps(p))
          => LET r == proc[p]
                 res == proc'[p].result
             IN  /\ proc'[p].pc = "done"
                 /\ chats' = chats
                 /\ UserFindOne(r.input.msgFrom) = Null
                      => (ErrorIn(res) /\ messages' = messages)
                 /\ IF res.kind = "message"
                    THEN /\ messages' = Append(messages, res.message)
                         /\ res.message._id = Len(messages')
                         /\ res.message.msg = r.input.msg
                         /\ res.message.msgFrom = r.input.msgFrom
                         /\ \A c \in 1..Len(chats') :
                               res.message._id \notin Range(chats'[c].messages)
                    ELSE ErrorIn(res) /\ messages' = messages ]_vars

\* Both cases have happened: a createMessage from a sender that is no user has
\* ended with an error, another has stored its message, and that message is
\* the only one stored and is in no chat.
C16_Witness ==
    \E p, q \in Procs :
        /\ Done(p, "createMessage")
        /\ UserFindOne(proc[p].input.msgFrom) = Null
        /\ ErrorIn(proc[p].result)
        /\ Done(q, "createMessage")
        /\ proc[q].result.kind = "message"
        /\ Len(messages) = 1
        /\ messages[1] = proc[q].result.message

\* The chats whose participants include every user the usernames name; a name
\* of no user is a participant of no chat.
ChatsOfAll(names) ==
    IF AllResolve(names)
    THEN { c \in 1..Len(chats) :
              Range(ResolvedIds(names)) \subseteq Range(chats[c].participants) }
    ELSE {}

\* C17: a getChatsByParticipants(usernames) whose storage lookup does not fail
\* returns exactly the chats whose participants include every one of the
\* users named, each once.
C17_ReturnsChatsOfAllUsernames ==
    [][ \A p \in Procs :
          ( /\ proc[p].pc = "gp_find"
            /\ proc'[p].pc = "done"
            /\ proc'[p].caught # "StorageError" )
          => LET res == proc'[p].result
             IN  /\ res.kind = "list"
                 /\ { res.chats[k]._id : k \in 1..Len(res.chats) }
                        = ChatsOfAll(proc[p].usernames)
                 /\ Len(res.chats) = Cardinality(ChatsOfAll(proc[p].usernames)) ]_vars

\* The chats whose stored participants hold every value of the query.
ChatsHolding(values) ==
    { c \in 1..Len(chats) : Range(values) \subseteq Range(chats[c].participants) }

\* C18: getChatsByParticipants never ends with an error: it returns a
\* sequence, which is empty when the lookup failed and when no chat holds
\* every value asked for, and it changes nothing that is stored.
C18_GetChatsNeverErrors ==
    [][ \A p \in Procs :
          (proc[p].pc = "gp_find" /\ proc'[p] # proc[p])
          => LET res == proc'[p].result
             IN  /\ proc'[p].pc = "done"
                 /\ res.kind = "list"
                 /\ ~ErrorIn(res)
                 /\ proc'[p].caught # "" => res.chats = <<>>
                 /\ ChatsHolding(proc[p].usernames) = {} => res.chats = <<>>
                 /\ UNCHANGED <<users, messages, chats>> ]_vars

\* The lookup failed although a chat holds the value asked for, and the call
\* returned the empty sequence.
C18_Witness ==
    \E p \in Procs :
        /\ Done(p, "getChatsByParticipants")
        /\ proc[p].caught = "StorageError"
        /\ proc[p].result = ListValue(<<>>)
        /\ ChatsHolding(proc[p].usernames) # {}

\* C19: a getChat for an id the chat collection does not hold ends with an
\* error; for a chat that exists it returns, unless the storage failed, the
\* participants of the chat as stored and the documents of its messages in
\* the stored order; no step of getChat changes the chats or the messages.
C19_GetChatReturnsStoredOrder ==
    [][ \A p \in Procs :
          (proc[p].pc = "gc_find" /\ proc'[p] # proc[p])
          => LET c == proc[p].chatId
                 res == proc'[p].result
             IN  /\ proc'[p].pc = "done"
                 /\ UNCHANGED <<chats, messages>>
                 /\ IF ~ChatExists(c) THEN ErrorIn(res)
                    ELSE IF res.kind = "chat"
                         THEN /\ res.chat.participants = chats[c].participants
                              /\ Ids(res.chat.messages) = chats[c].messages
                              /\ \A k \in 1..Len(res.chat.messages) :
                                    res.chat.messages[k] = messages[chats[c].messages[k]]
                         ELSE res = Err(ErrGetChat) ]_vars

\* A getChat has returned a chat of two participants and two messages, the
\* first stored message first.
C19_Witness ==
    \E p \in Procs :
        /\ Done(p, "getChat")
        /\ proc[p].result.kind = "chat"
        /\ Len(proc[p].result.chat.participants) = 2
        /\ Ids(proc[p].result.chat.messages) = <<1, 2>>
        /\ chats[proc[p].chatId].messages = <<1, 2>>

\* An entry of a returned chat's messages that carries the user field: the id
\* of the sender, or null.
HasUserField(entry) ==
    /\ "user" \in DOMAIN entry
    /\ entry.user \in {Null} \cup { users[u] : u \in DOMAIN users }

\* The chats a call has resolved with.
ReturnedChats(res) ==
    IF res.kind = "chat" THEN <<res.chat>>
    ELSE IF res.kind = "list" THEN res.chats ELSE <<>>

\* C20: every message of every chat a call of the service has returned
\* carries a user field, the sender's projection or null.
C20_ReturnedMessagesCarryUser ==
    \A p \in Procs :
        proc[p].pc = "done"
            => \A n \in 1..Len(ReturnedChats(proc[p].result)) :
                  LET chat == ReturnedChats(proc[p].result)[n]
                  IN  \A k \in 1..Len(chat.messages) : HasUserField(chat.messages[k])

\* The entries of a returned chat's messages that are message m carry the
\* user field, and it is null.
CarriesNullUser(chat, m) ==
    \A k \in 1..Len(chat.messages) :
        chat.messages[k]._id = m
            => ("user" \in DOMAIN chat.messages[k] /\ chat.messages[k].user = Null)

\* C21: a message whose sender is no user (any more) does not make an append
\* or a read fail: unless the storage fails, appending it to a chat that
\* exists, and reading a chat that holds it, return the chat, and the chat
\* returned carries that message with user = null.
C21_UnresolvedSenderGivesNullUser ==
    [][ \A p \in Procs :
          /\ ( /\ proc[p].pc = "am_push"
               /\ proc[p].op = "addMessageToChat"
               /\ proc'[p].pc = "done"
               /\ ChatExists(proc[p].chatId)
               /\ UserFindOne(messages[proc[p].messageId].msgFrom) = Null
               /\ proc'[p].result # Err(ErrAddMessage) )
             => ( /\ proc'[p].result.kind = "chat"
                  /\ CarriesNullUser(proc'[p].result.chat, proc[p].messageId) )
          /\ ( /\ proc[p].pc = "gc_find"
               /\ proc'[p].pc = "done"
               /\ ChatExists(proc[p].chatId)
               /\ proc'[p].result # Err(ErrGetChat) )
             => ( /\ proc'[p].result.kind = "chat"
                  /\ \A k \in 1..Len(chats[proc[p].chatId].messages) :
                        LET m == chats[proc[p].chatId].messages[k]
                        IN  UserFindOne(messages[m].msgFrom) = Null
                                => CarriesNullUser(proc'[p].result.chat, m) ) ]_vars

\* The request of process record r has been answered.
Responded(r, route) == r.route = route /\ r.pc = "responded"

\* The body of an add-message request is invalid: msg or msgFrom is missing
\* or empty, or msgDateTime is null.
InvalidMessageBody(body) ==
    \/ body.msg \in {Undefined, ""}
    \/ body.msgFrom \in {Undefined, ""}
    \/ body.msgDateTime = NullDate

C23_UnknownChatLeavesNoMessage ==
    \A p \in Procs :
        ( /\ Responded(proc[p], "addMessage")
          /\ ~InvalidMessageBody(proc[p].body)
          /\ ~ChatExists(proc[p].chatId)
          /\ proc[p].result = Err(ErrNoChat) )
            => ( /\ proc[p].status # 200
                 /\ ~MessageExists(proc[p].messageId) )

\* The body of a create-chat or add-participant request is invalid.
InvalidBody(r) ==
    IF r.route = "createChat"
    THEN {"participants", "messages"} \ r.body.present # {}
    ELSE r.body.userId \in {Undefined, ""}

C26_ChatsArePopulated ==
    \A p \in Procs :
        LET r == proc[p]
        IN  ( /\ r.route \in {"createChat", "addMessage", "getChat", "getChatsByUser"}
              /\ r.pc = "responded"
              /\ r.status = 200 )
            => r.populateCalls = Len(ReturnedChats(r.sent))

\* C27: an add-message request emits nothing before it is answered; one that
\* is answered 200 has emitted exactly one chatUpdate of type newMessage, to
\* the room of its chat, with a chat that holds the appended message, and the
\* append is in the chat collection; one that is answered with another
\* status has emitted nothing.
C27_OneEventPerAppend ==
    \A p \in Procs :
        LET r == proc[p]
        IN  r.route = "addMessage"
            => IF r.pc = "responded" /\ r.status = 200
               THEN /\ Len(r.emitted) = 1
                    /\ r.emitted[1].event = "chatUpdate"
                    /\ r.emitted[1].type = "newMessage"
                    /\ r.emitted[1].room = r.chatId
                    /\ r.messageId \in Range(Ids(r.emitted[1].chat.messages))
                    /\ ChatExists(r.chatId)
                    /\ r.messageId \in Range(chats[r.chatId].messages)
               ELSE r.emitted = <<>>

\* C28: a create-chat request that is answered 200 has emitted a chatUpdate
\* of type created that carries the new chat.
C28_CreatedIsBroadcast ==
    \A p \in Procs :
        LET r == proc[p]
        IN  (Responded(r, "createChat") /\ r.status = 200)
            => \E k \in 1..Len(r.emitted) :
                  /\ r.emitted[k].event = "chatUpdate"
                  /\ r.emitted[k].type = "created"
                  /\ r.emitted[k].chat._id = r.sent.chat._id

\* C29: an event emitted to a room is delivered to the connections that are
\* in the room when it is emitted, and to no other connection.
C29_DeliveredToSubscribersOnly ==
    [][ \A p \in Procs :
          Len(proc'[p].emitted) > Len(proc[p].emitted)
          => LET ev == proc'[p].emitted[Len(proc'[p].emitted)]
             IN  \A conn \in Conns :
                    conn \in ev.to
                        <=> (ev.room \in DOMAIN rooms /\ conn \in rooms[ev.room]) ]_vars

\* An event went to the room of chat 1 while one connection was in it and the
\* other was not, and only the one in it got the event.
C29_Witness ==
    \E p \in Procs :
        /\ Len(proc[p].emitted) = 1
        /\ proc[p].emitted[1].room = 1
        /\ Cardinality(proc[p].emitted[1].to) = 1
        /\ proc[p].emitted[1].to = rooms[1]

\* C30: joinChat is idempotent and touches one membership only: after a
\* joinChat of a connection for a chat id the rooms are the rooms before it
\* with the connection in that room, so a joinChat of a connection that is in
\* the room already leaves every room as it was.
C30_JoinChatIdempotent ==
    lastSocket.event = "joinChat"
        => LET before == lastSocket.before
               conn == lastSocket.conn
               chatId == lastSocket.chatId
           IN  /\ rooms = [before EXCEPT ![chatId] = before[chatId] \cup {conn}]
               /\ conn \in before[chatId] => rooms = before

\* A connection that was in the room has joined it again, while the other
\* connection is in the other room.
C30_Witness ==
    /\ lastSocket.event = "joinChat"
    /\ lastSocket.conn \in lastSocket.before[lastSocket.chatId]
    /\ \E conn \in Conns \ {lastSocket.conn}, chatId \in RoomIds \ {lastSocket.chatId} :
          /\ conn \in rooms[chatId]
          /\ conn \notin rooms[lastSocket.chatId]

\* C31: leaveChat takes the connection out of the room of the given chat id
\* and touches nothing else: after a leaveChat of a connection the rooms are
\* the rooms before it without the connection in that room, and a leaveChat
\* of a connection that is not in the room, or with an undefined chat id,
\* leaves every room as it was.
C31_LeaveChatRemovesOrNoOp ==
    lastSocket.event = "leaveChat"
        => LET before == lastSocket.before
               conn == lastSocket.conn
               chatId == lastSocket.chatId
           IN  IF chatId = UndefinedChatId
               THEN rooms = before
               ELSE /\ rooms = [before EXCEPT ![chatId] = before[chatId] \ {conn}]
                    /\ conn \notin rooms[chatId]
                    /\ conn \notin before[chatId] => rooms = before

\* A connection has left a room it was in, and the other connection is in
\* that room still.
C31_Witness ==
    /\ lastSocket.event = "leaveChat"
    /\ lastSocket.chatId # UndefinedChatId
    /\ lastSocket.conn \in lastSocket.before[lastSocket.chatId]
    /\ \E conn \in Conns \ {lastSocket.conn} : conn \in rooms[lastSocket.chatId]

\* The kinds of value an operation of the service may resolve with.
ResultKinds(op) ==
    CASE op = "createMessage" -> {"message", "error"}
      [] op = "getChatsByParticipants" -> {"list"}
      [] OTHER -> {"chat", "error"}

\* The next step of the call process p is in.
ServiceStep(p) ==
    \/ SaveChatLookup(p)
    \/ SaveChatCreate(p)
    \/ SaveChatCreateMessage(p)
    \/ AddMessageFind(p)
    \/ AddMessageUser(p)
    \/ AddMessagePush(p)
    \/ CreateMessage(p)
    \/ AddParticipantUpdate(p)
    \/ GetChatFind(p)
    \/ GetChatsFind(p)

\* C32: every operation of the chat service ends with a value or an explicit
\* error value, whatever its input and whichever storage call fails: a call
\* that has ended holds a result of the kind its operation declares (a chat,
\* a message or a list of chats, or an error value), never nothing, and a call
\* that has not ended can always take its next step.
C32_EveryOperationReturns ==
    \A p \in Procs :
        /\ proc[p].pc = "done" => proc[p].result.kind \in ResultKinds(proc[p].op)
        /\ proc[p].pc \notin {"idle", "done"} => ENABLED ServiceStep(p)

\* A storage call of addMessageToChat has failed and the call has ended with
\* the error value of its catch block, while getChatsByParticipants has ended
\* with the empty list of its own.
C32_Witness ==
    \E p, q \in Procs :
        /\ Done(p, "addMessageToChat")
        /\ proc[p].result = Err(ErrAddMessage)
        /\ Done(q, "getChatsByParticipants")
        /\ proc[q].caught = "StorageError"
        /\ proc[q].result = ListValue(<<>>)

\* C33: an operation on one chat id leaves every other chat as it is: no step
\* of an addMessageToChat or addParticipantToChat call for chat A, whatever
\* other call runs next to it, changes the participants or the messages of a
\* chat B other than A, or the number of chats.
C33_OtherChatsUnchanged ==
    [][ \A p \in Procs :
          (Steps(p) /\ proc[p].op \in {"addMessageToChat", "addParticipantToChat"})
          => /\ Len(chats') = Len(chats)
             /\ \A c \in 1..Len(chats) :
                    c # proc[p].chatId => chats'[c] = chats[c] ]_vars

\* One call has added the message to chat 1 while the other has added a user
\* to chat 2, and each chat holds what its own call gave it and nothing of
\* the other's.
C33_Witness ==
    \E p, q \in Procs :
        /\ Done(p, "addMessageToChat") /\ proc[p].chatId = 1
        /\ proc[p].result.kind = "chat"
        /\ Done(q, "addParticipantToChat") /\ proc[q].chatId = 2
        /\ proc[q].result.kind = "chat"
        /\ chats[1] = [participants |-> <<"u_alice", "u_bob">>, messages |-> <<1>>]
        /\ chats[2].messages = <<>>
        /\ Len(chats[2].participants) = 2

\* C34: every request to a chat route is answered exactly once: a handler
\* that has ended has sent one response, and no handler, at any point, has
\* sent (or tried to send) a second response for its request or has rejected
\* instead of answering.
C34_ExactlyOneResponse ==
    \A p \in Procs :
        /\ proc[p].sends <= 1
        /\ ~proc[p].rejected
        /\ proc[p].pc = "responded" => proc[p].sends = 1

\* No request is being served, no handler of a page awaits one and no event is
\* on its way to a page.
FanOutQuiet ==
    /\ \A p \in Procs : proc[p].pc = "idle"
    /\ \A conn \in Conns : clients[conn].handler = "none" /\ clients[conn].inbox = <<>>

RoomsOf(conn) == { c \in DOMAIN rooms : conn \in rooms[c] }

\* C36: once the socket events the direct-message page has emitted are
\* handled and no handler of the page awaits a request, the connection of a
\* page that shows a chat is in the room of that chat and in no other room.
C36_SubscribedToSelectedChat ==
    \A conn \in Conns :
        LET c == clients[conn]
        IN  (c.mounted /\ c.handler = "none" /\ c.outbox = <<>> /\ c.inbox = <<>>
             /\ c.showing # UndefinedChatId)
            => RoomsOf(conn) = {c.showing}

\* numObjects is an integer from 1 to 3.
ValidNumObjects(move) ==
    /\ ~move.numObjects.nan
    /\ move.numObjects.val \in MOVE_MIN_OBJECTS..MOVE_MAX_OBJECTS

\* C37: the move the Nim page holds has an integer from 1 to 3 as its number
\* of objects, whatever was typed into the input, and so has every move the
\* page has emitted with makeMove.
C37_NumObjectsInRange ==
    /\ ~pages.nim.move.isNull => ValidNumObjects(pages.nim.move)
    /\ \A k \in 1..Len(pages.nim.emitted) : ValidNumObjects(pages.nim.emitted[k])

\* The usernames of a list of users, and a list with no username twice.
Usernames(list) == { list[k].username : k \in 1..Len(list) }
NoDuplicateUsernames(list) ==
    \A j, k \in 1..Len(list) : list[j].username = list[k].username => j = k

\* C38: a userUpdate event applied to a list with no username twice gives a
\* list with no username twice: a created event for a username of the list
\* puts the user in the place of the entry with that username, a created
\* event for another username puts the user at the front of the list, and a
\* deleted event takes out every entry with the username and nothing else.
C38_UserListHasNoDuplicates ==
    [][ LET before == pages.usersList
            after == pages'.usersList
            list == before.userList
            list2 == after.userList
            type == after.last.type
            user == after.last.user
        IN  ( /\ after # before
              /\ after.fetching = before.fetching
              /\ after.listening = before.listening
              /\ NoDuplicateUsernames(list) )
            => /\ NoDuplicateUsernames(list2)
               /\ (type = "created" /\ user.username \in Usernames(list))
                    => /\ Len(list2) = Len(list)
                       /\ \A k \in 1..Len(list) :
                              list2[k] = IF list[k].username = user.username
                                         THEN user ELSE list[k]
               /\ (type = "created" /\ user.username \notin Usernames(list))
                    => /\ Len(list2) = Len(list) + 1
                       /\ list2[1] = user
                       /\ Tail(list2) = list
               /\ type = "deleted"
                    => /\ user.username \notin Usernames(list2)
                       /\ IsSubseq(list2, list)
                       /\ \A k \in 1..Len(list) :
                              list[k].username # user.username => list[k] \in Range(list2) ]_vars

\* The list held alice after bob, and a created event with the other version
\* of alice's account has put it in that place.
C38_Witness ==
    /\ pages.usersList.last = [type |-> "created", user |-> User("alice", 2)]
    /\ pages.usersList.userList = <<User("bob", 1), User("alice", 2)>>

\* C39: the profile settings page, while it is open, never holds a success
\* message and an error message at once.
C39_AtMostOneMessage ==
    ~pages.profile.navigated
        => ~( pages.profile.successMessage # Null /\ pages.profile.errorMessage # Null )

====
